---- MODULE Spec2Model ----
(***************************************************************************)
(* Safety-gated orchestration engine of the OpenUp LangGraph PoC.          *)
(*                                                                         *)
(*  SpecCB : withEmergencyCircuitBreaker (src/services/circuitBreaker.ts)  *)
(*           racing checkEmergency (src/services/emergency.ts) against the *)
(*           response computation under a deadline timer.                  *)
(*  Spec   : the main graph (src/graph/index.ts): orchestrator -> tools -> *)
(*           orchestrator -> followup -> END.                              *)
(*  SpecDeployment : the graph of src/graph/deployment.ts.                 *)
(*  SpecValidate   : validatePayload (src/types/helpers.ts) applied to     *)
(*           payloads of every message type.                               *)
(*  SpecContent    : contentAgentNode (src/graph/nodes/contentAgent.ts).   *)
(***************************************************************************)
EXTENDS Integers, Sequences, FiniteSets, TLC

VARIABLES
    \* ---- circuit breaker ----
    now,                  \* wall clock, ms since withEmergencyCircuitBreaker was called
    emergencyTimeoutMs,   \* config.emergencyTimeoutMs
    modelOutput,          \* what fastModel.invoke produced for the classifier ("pending" before)
    emergencyPromise,     \* [state, value] of checkEmergency(lastUserMessage)
    orchestratorPromise,  \* [state, value] of orchestratorFn()
    firstResult,          \* RaceResult of the three-way Promise.race
    cbPc,                 \* where the async function is suspended
    cbResult,             \* the ChatResponse the function resolved with
    deadlineFired,        \* the emergencyTimeout timer has fired
    graceAt,              \* expiry of timeout(500, false) in CASE 3, -1 when not armed
    lateHandler,          \* the fire-and-forget emergencyPromise.then of CASE 4
    lateDetection,        \* the LATE DETECTION warning was logged
    emSettledAt,          \* time at which emergencyPromise settled, -1 before
    orchSettledAt,        \* time at which orchestratorPromise settled, -1 before
    returnedAt,           \* time at which the function settled, -1 before
    \* ---- main graph ----
    state,                \* GraphState: the channels of the running turn
    node,                 \* the node the graph executes next, "END" when the turn is over
    step,                 \* what the node executed last did (collaborators it invoked)
    path,                 \* the nodes executed so far in this turn, in order
    toolRounds,           \* number of times the tools node has run in this turn
    \* ---- payload validator ----
    vInput,               \* the (messageType, payload) pair handed to validatePayload
    vVerdicts             \* what validatePayload returned, call after call

cbVars == << now, emergencyTimeoutMs, modelOutput, emergencyPromise,
             orchestratorPromise, firstResult, cbPc, cbResult, deadlineFired,
             graceAt, lateHandler, lateDetection, emSettledAt, orchSettledAt,
             returnedAt >>

-----------------------------------------------------------------------------
(* Bounds and program constants                                            *)

graphVars == << state, node, step, path, toolRounds >>

valVars == << vInput, vVerdicts >>

\* number of clock ticks a circuit-breaker run is observed for
MaxTicks == 14

\* largest number of tool calls the generator puts on one AI message
MaxBatch == 2

\* largest number of times the generator asks for tools in one turn
MaxToolRounds == 1

\* timeout(500, false) of CASE 3
GRACE_MS == 500

\* default of config.emergencyTimeoutMs
DEFAULT_EMERGENCY_TIMEOUT_MS == 2000

\* clock granularity: half a grace window
TickMs == GRACE_MS \div 2

MaxTime == MaxTicks * TickMs

\* deadlines a caller configures
TimeoutChoices == { DEFAULT_EMERGENCY_TIMEOUT_MS \div 2, DEFAULT_EMERGENCY_TIMEOUT_MS }

\* texts the response computation resolves with
OrchestratorTexts == { "I'm here to help", "Here are some articles on stress" }

-----------------------------------------------------------------------------
(* Classifier output and its parsing                                       *)

\* the model call of the classifier rejected
THROWN == "<<model call threw>>"

\* representative raw contents returned by the fast model
ClassifierContents ==
    { "{\"isEmergency\": true}",
      "{\"isEmergency\": false}",
      "{\"isEmergency\": \"true\"}",
      "Result: {\"isEmergency\": true}",
      "Result: {\"isEmergency\": false}",
      "{\"isEmergency\": tru}",
      "{\"isEmergency\": false} (confidence: {high})",
      "I cannot assess this message." }

ClassifierOutputs == ClassifierContents \cup { THROWN }

SyntaxError == [ error |-> "SyntaxError" ]

\* JSON.parse of a classifier content
JsonParse(content) ==
    CASE content = "{\"isEmergency\": true}"     -> [ isEmergency |-> "true" ]
      [] content = "{\"isEmergency\": false}"    -> [ isEmergency |-> "false" ]
      [] content = "{\"isEmergency\": \"true\"}" -> [ isEmergency |-> "string:true" ]
      [] OTHER                                   -> SyntaxError

\* result.isEmergency === true
IsStrictlyTrue(result) == result.isEmergency = "true"

ChatResponse(message, isEmergency) ==
    [ message |-> message, isEmergency |-> isEmergency ]

EMERGENCY_RESPONSE ==
    ChatResponse("I'm concerned about what you're sharing. Your safety matters most right now.", TRUE)

NoResponse == [ message |-> "<<none>>", isEmergency |-> FALSE ]

\* checkEmergency of src/services/emergency.ts: the boolean the promise resolves with
checkEmergencyService(output) ==
    IF output = THROWN THEN FALSE
    ELSE LET result == JsonParse(output)
         IN  IF result = SyntaxError THEN FALSE
             ELSE IsStrictlyTrue(result)

-----------------------------------------------------------------------------
(* withEmergencyCircuitBreaker                                             *)

\* the response computation rejected
REJECTED == "<<orchestratorFn rejected>>"

Pending == [ state |-> "pending", value |-> "<<none>>" ]

NoRaceResult == [ source |-> "none", isEmergency |-> FALSE, message |-> "" ]

TaggedEmergency(isEmergency) ==
    [ source |-> "emergency", isEmergency |-> isEmergency, message |-> "" ]

TaggedOrchestrator(message) ==
    [ source |-> "orchestrator", isEmergency |-> FALSE, message |-> message ]

TaggedTimeout == [ source |-> "timeout", isEmergency |-> FALSE, message |-> "" ]

\* timeout(ms, value): the instant at which a timer started now resolves
timeout(ms) == now + ms

-----------------------------------------------------------------------------
(* GraphState, messages and payloads of the main graph                     *)

\* null in a string-valued channel
NullStr == "<<null>>"

\* null in responsePayload
NullPayload == [ null |-> TRUE ]

\* message content that is not a string (an array of content blocks)
ContentBlocks == "<<content blocks>>"

HumanMessage(content) ==
    [ type |-> "human", content |-> content, tool_calls |-> << >>, tool_call_id |-> "" ]

AIMessage(content, tool_calls) ==
    [ type |-> "ai", content |-> content, tool_calls |-> tool_calls, tool_call_id |-> "" ]

ToolMessage(tool_call_id, content) ==
    [ type |-> "tool", content |-> content, tool_calls |-> << >>, tool_call_id |-> tool_call_id ]

\* messages.at(-1) of an empty array
Undefined == [ type |-> "unknown", content |-> "", tool_calls |-> << >>, tool_call_id |-> "" ]

\* state.messages.at(-1)
LastMessage(messages) ==
    IF Len(messages) = 0 THEN Undefined ELSE messages[Len(messages)]

\* getMessageType of graph/utils.ts
getMessageType(message) == message.type

CRISIS_RESOURCES ==
    [ severity |-> "high",
      resources |-> << [ name |-> "Netherlands", number |-> "113", label |-> "Zelfmoordpreventie", country |-> "NL" ],
                       [ name |-> "Belgium", number |-> "1813", label |-> "Zelfmoordlijn", country |-> "BE" ],
                       [ name |-> "UK", number |-> "116 123", label |-> "Samaritans", country |-> "GB" ],
                       [ name |-> "International", number |-> "112", label |-> "Emergency Services" ] >>,
      safetyQuestion |-> "Are you safe right now?" ]

EMERGENCY_MESSAGE ==
    "I'm concerned about what you're sharing. Your safety matters most right now. [...] Are you safe right now?"

\* the default() of every channel of GraphState
GraphDefaults ==
    [ messages |-> << >>,
      conversationLanguage |-> "en-GB",
      conversationId |-> "",
      isEmergency |-> FALSE,
      intent |-> NullStr,
      sessionType |-> NullStr,
      selectedExpertId |-> NullStr,
      selectedSlotId |-> NullStr,
      contentTopic |-> NullStr,
      contentLanguage |-> NullStr,
      contentType |-> NullStr,
      conversationSummary |-> NullStr,
      experts |-> << >>,
      timeSlots |-> << >>,
      contentItems |-> << >>,
      responseMessage |-> NullStr,
      responseMessageType |-> "text",
      responsePayload |-> NullPayload,
      error |-> NullStr,
      agentCompleted |-> NullStr,
      followupQuestion |-> NullStr ]

\* variant: every channel, messages included, is replaced by the update
Reduce_ReplacesMessages(current, update) ==
    [ channel \in DOMAIN current |->
        IF channel \in DOMAIN update THEN update[channel] ELSE current[channel] ]

\* the reducers of GraphState: messages appends, every other channel replaces
Reduce(current, update) ==
    [ channel \in DOMAIN current |->
        IF channel \in DOMAIN update
        THEN IF channel = "messages"
             THEN current.messages \o update.messages
             ELSE update[channel]
        ELSE current[channel] ]

NoStep ==
    [ node |-> "none", classifier |-> "not invoked", generator |-> "not invoked",
      tools |-> << >>, outcomes |-> << >>, durations |-> << >>,
      followup |-> "not invoked" ]

\* no graph turn is running
GraphIdle ==
    /\ state = GraphDefaults
    /\ node = "END"
    /\ step = NoStep
    /\ path = << >>
    /\ toolRounds = 0

\* no payload is being validated
NoInput == [ messageType |-> "none", payload |-> NullPayload ]

ValidatorIdle ==
    /\ vInput = NoInput
    /\ vVerdicts = << >>

\* no circuit breaker is running
CBIdle ==
    /\ now = 0
    /\ emergencyTimeoutMs = DEFAULT_EMERGENCY_TIMEOUT_MS
    /\ modelOutput = "pending"
    /\ emergencyPromise = Pending
    /\ orchestratorPromise = Pending
    /\ firstResult = NoRaceResult
    /\ cbPc = "idle"
    /\ cbResult = NoResponse
    /\ deadlineFired = FALSE
    /\ graceAt = -1
    /\ lateHandler = "none"
    /\ lateDetection = FALSE
    /\ emSettledAt = -1
    /\ orchSettledAt = -1
    /\ returnedAt = -1

-----------------------------------------------------------------------------
(* withEmergencyCircuitBreaker: the race                                   *)

\* lines 44-72: both computations and the deadline timer are started, the
\* function is suspended on the three-way race
InitCB ==
    /\ now = 0
    /\ emergencyTimeoutMs \in TimeoutChoices
    /\ modelOutput = "pending"
    /\ emergencyPromise = Pending
    /\ orchestratorPromise = Pending
    /\ firstResult = NoRaceResult
    /\ cbPc = "race"
    /\ cbResult = NoResponse
    /\ deadlineFired = FALSE
    /\ graceAt = -1
    /\ lateHandler = "none"
    /\ lateDetection = FALSE
    /\ emSettledAt = -1
    /\ orchSettledAt = -1
    /\ returnedAt = -1
    /\ GraphIdle
    /\ ValidatorIdle

\* the async function resolves with resp
Return(resp) ==
    /\ cbPc' = "returned"
    /\ cbResult' = resp
    /\ returnedAt' = now

\* the async function rejects (an awaited promise rejected)
Throw ==
    /\ cbPc' = "rejected"
    /\ returnedAt' = now
    /\ UNCHANGED cbResult

\* variant: a positive verdict does not trip, the response is awaited
AfterRaceEmergency_NoTrip(isEmergency) ==
    /\ cbPc' = "case2"
    /\ UNCHANGED << cbResult, returnedAt >>

\* CASE 1 / CASE 2 (lines 74-85): the race was won by the classifier
AfterRaceEmergency(isEmergency) ==
    IF isEmergency
    THEN Return(EMERGENCY_RESPONSE)
    ELSE /\ cbPc' = "case2"
         /\ UNCHANGED << cbResult, returnedAt >>

\* variant: the verdict of the grace race is not looked at
AfterGrace_IgnoresVerdict(emergencyResult) ==
    Return(ChatResponse(firstResult.message, FALSE))

\* CASE 3 (lines 92-102): outcome of Promise.race([emergencyPromise, timeout(500, false)])
AfterGrace(emergencyResult) ==
    IF emergencyResult = TRUE
    THEN Return(EMERGENCY_RESPONSE)
    ELSE Return(ChatResponse(firstResult.message, FALSE))

\* variant: CASE 2 returns without awaiting orchestratorPromise
Case2Result_NoAwait(message) == ChatResponse(orchestratorPromise.value, FALSE)

\* CASE 2, line 84
Case2Result(message) == ChatResponse(message, FALSE)

\* variant: a verdict that arrived after the deadline overrides the response
Case4Result_HonoursLateVerdict(message) ==
    IF emergencyPromise.state = "fulfilled" /\ emergencyPromise.value
    THEN EMERGENCY_RESPONSE
    ELSE ChatResponse(message, FALSE)

\* variant: a classifier timeout is answered with the safety result
Case4Result_FailClosed(message) == EMERGENCY_RESPONSE

\* variant: CASE 4 flags the response text as an emergency
Case4Result_FlagsResponse(message) == ChatResponse(message, TRUE)

\* CASE 4, line 118
Case4Result(message) == ChatResponse(message, FALSE)

\* variant: the grace race waits as long as the deadline
GraceExpiry_Deadline == timeout(emergencyTimeoutMs)

\* CASE 3, line 94: timeout(500, false)
GraceExpiry == timeout(GRACE_MS)

\* checkEmergency settles: the model call returned output (or threw)
EmergencySettles(output) ==
    /\ emergencyPromise.state = "pending"
    /\ UNCHANGED << graphVars, valVars >>
    /\ LET isEmergency == checkEmergencyService(output)
       IN  /\ modelOutput' = output
           /\ emergencyPromise' = [ state |-> "fulfilled", value |-> isEmergency ]
           /\ emSettledAt' = now
           /\ CASE cbPc = "race" ->
                     /\ firstResult' = TaggedEmergency(isEmergency)
                     /\ AfterRaceEmergency(isEmergency)
                [] cbPc = "case3" ->
                     /\ AfterGrace(isEmergency)
                     /\ UNCHANGED firstResult
                [] OTHER ->
                     UNCHANGED << firstResult, cbPc, cbResult, returnedAt >>
    /\ UNCHANGED << now, emergencyTimeoutMs, orchestratorPromise, deadlineFired,
                    graceAt, lateHandler, lateDetection, orchSettledAt >>

\* orchestratorFn() resolves with message
OrchestratorResolves(message) ==
    /\ orchestratorPromise.state = "pending"
    /\ UNCHANGED << graphVars, valVars >>
    /\ orchestratorPromise' = [ state |-> "fulfilled", value |-> message ]
    /\ orchSettledAt' = now
    /\ CASE cbPc = "race" ->
              \* CASE 3, lines 87-95: arm the grace timer
              /\ firstResult' = TaggedOrchestrator(message)
              /\ cbPc' = "case3"
              /\ graceAt' = GraceExpiry
              /\ UNCHANGED << cbResult, returnedAt, lateHandler >>
         [] cbPc = "case2" ->
              \* lines 83-84
              /\ Return(Case2Result(message))
              /\ UNCHANGED << firstResult, graceAt, lateHandler >>
         [] cbPc = "case4" ->
              \* lines 108-118: attach the fire-and-forget handler, then return
              /\ lateHandler' = "attached"
              /\ Return(Case4Result(message))
              /\ UNCHANGED << firstResult, graceAt >>
         [] OTHER ->
              UNCHANGED << firstResult, cbPc, cbResult, returnedAt, graceAt, lateHandler >>
    /\ UNCHANGED << now, emergencyTimeoutMs, modelOutput, emergencyPromise,
                    deadlineFired, lateDetection, emSettledAt >>

\* orchestratorFn() rejects
OrchestratorRejects ==
    /\ orchestratorPromise.state = "pending"
    /\ UNCHANGED << graphVars, valVars >>
    /\ orchestratorPromise' = [ state |-> "rejected", value |-> REJECTED ]
    /\ orchSettledAt' = now
    /\ IF cbPc \in { "race", "case2", "case4" }
       THEN Throw
       ELSE UNCHANGED << cbPc, cbResult, returnedAt >>
    /\ UNCHANGED << now, emergencyTimeoutMs, modelOutput, emergencyPromise,
                    firstResult, deadlineFired, graceAt, lateHandler,
                    lateDetection, emSettledAt >>

DeadlineDue == ~deadlineFired /\ now >= emergencyTimeoutMs

GraceDue == cbPc = "case3" /\ graceAt >= 0 /\ now >= graceAt

\* the emergencyTimeout timer of lines 62-65 fires
DeadlineFires ==
    /\ DeadlineDue
    /\ UNCHANGED << graphVars, valVars >>
    /\ deadlineFired' = TRUE
    /\ IF cbPc = "race"
       THEN /\ firstResult' = TaggedTimeout
            /\ cbPc' = "case4"
       ELSE UNCHANGED << firstResult, cbPc >>
    /\ UNCHANGED << now, emergencyTimeoutMs, modelOutput, emergencyPromise,
                    orchestratorPromise, cbResult, graceAt, lateHandler,
                    lateDetection, emSettledAt, orchSettledAt, returnedAt >>

\* variant: CASE 3 attaches the late-detection handler when the grace expires
GraceFires_AttachesLateHandler ==
    /\ GraceDue
    /\ UNCHANGED << graphVars, valVars >>
    /\ AfterGrace(FALSE)
    /\ lateHandler' = "attached"
    /\ UNCHANGED << now, emergencyTimeoutMs, modelOutput, emergencyPromise,
                    orchestratorPromise, firstResult, deadlineFired, graceAt,
                    lateDetection, emSettledAt, orchSettledAt >>

\* the timeout(500, false) of line 94 wins the grace race
GraceFires ==
    /\ GraceDue
    /\ UNCHANGED << graphVars, valVars >>
    /\ AfterGrace(FALSE)
    /\ UNCHANGED << now, emergencyTimeoutMs, modelOutput, emergencyPromise,
                    orchestratorPromise, firstResult, deadlineFired, graceAt,
                    lateHandler, lateDetection, emSettledAt, orchSettledAt >>

\* variant: the late-detection handler replaces the result already returned
LateEmergencyHandler_OverridesResult ==
    /\ lateHandler = "attached"
    /\ UNCHANGED << graphVars, valVars >>
    /\ emergencyPromise.state = "fulfilled"
    /\ lateHandler' = "ran"
    /\ lateDetection' = emergencyPromise.value
    /\ cbResult' = IF emergencyPromise.value THEN EMERGENCY_RESPONSE ELSE cbResult
    /\ UNCHANGED << now, emergencyTimeoutMs, modelOutput, emergencyPromise,
                    orchestratorPromise, firstResult, cbPc,
                    deadlineFired, graceAt, emSettledAt, orchSettledAt,
                    returnedAt >>

\* lines 111-116: the handler attached to emergencyPromise runs
LateEmergencyHandler ==
    /\ lateHandler = "attached"
    /\ UNCHANGED << graphVars, valVars >>
    /\ emergencyPromise.state = "fulfilled"
    /\ lateHandler' = "ran"
    /\ lateDetection' = emergencyPromise.value
    /\ UNCHANGED << now, emergencyTimeoutMs, modelOutput, emergencyPromise,
                    orchestratorPromise, firstResult, cbPc, cbResult,
                    deadlineFired, graceAt, emSettledAt, orchSettledAt,
                    returnedAt >>

\* time passes; a timer that is due fires before the clock moves on
Tick ==
    /\ now < MaxTime
    /\ UNCHANGED << graphVars, valVars >>
    /\ ~DeadlineDue
    /\ ~GraceDue
    /\ now' = now + TickMs
    /\ UNCHANGED << emergencyTimeoutMs, modelOutput, emergencyPromise,
                    orchestratorPromise, firstResult, cbPc, cbResult,
                    deadlineFired, graceAt, lateHandler, lateDetection,
                    emSettledAt, orchSettledAt, returnedAt >>

NextCB ==
    \/ \E output \in ClassifierOutputs : EmergencySettles(output)
    \/ \E message \in OrchestratorTexts : OrchestratorResolves(message)
    \/ OrchestratorRejects
    \/ DeadlineFires
    \/ GraceFires
    \/ LateEmergencyHandler
    \/ Tick

vars == << cbVars, graphVars, valVars >>

SpecCB == InitCB /\ [][NextCB]_vars

-----------------------------------------------------------------------------
(* Orchestrator node: inline emergency check and response generation       *)

NoMatch == "<<no match>>"

\* content.match(/\{[\s\S]*"isEmergency"[\s\S]*\}/): from the first "{" to
\* the last "}" around "isEmergency"
RegexMatch(content) ==
    CASE content = "{\"isEmergency\": true}"             -> content
      [] content = "{\"isEmergency\": false}"            -> content
      [] content = "{\"isEmergency\": \"true\"}"         -> content
      [] content = "Result: {\"isEmergency\": true}"     -> "{\"isEmergency\": true}"
      [] content = "Result: {\"isEmergency\": false}"    -> "{\"isEmergency\": false}"
      [] content = "{\"isEmergency\": tru}"              -> content
      [] content = "{\"isEmergency\": false} (confidence: {high})"
                                                         -> "{\"isEmergency\": false} (confidence: {high}"
      [] OTHER                                           -> NoMatch

\* checkEmergency of graph/nodes/orchestrator.ts
checkEmergency(output) ==
    IF output = THROWN THEN [ isEmergency |-> TRUE ]
    ELSE LET jsonMatch == RegexMatch(output)
         IN  IF jsonMatch = NoMatch THEN [ isEmergency |-> TRUE ]
             ELSE LET result == JsonParse(jsonMatch)
                  IN  IF result = SyntaxError THEN [ isEmergency |-> TRUE ]
                      ELSE [ isEmergency |-> IsStrictlyTrue(result) ]

\* the registered tools (allTools)
ToolNames == { "search_content", "search_experts", "get_expert_availability", "book_session" }

ToolCall(id, name) == [ id |-> id, name |-> name ]

\* orders in which the generator requests tools; a batch is a prefix of one
RequestOrders ==
    { << "search_content", "search_experts", "fetch_x" >>,
      << "fetch_x", "book_session", "search_content" >>,
      << "search_experts", "get_expert_availability", "book_session" >> }

CallIds == << "call_1", "call_2", "call_3" >>

Batch(order, n) == [ i \in 1..n |-> ToolCall(CallIds[i], order[i]) ]

\* what model.invoke(messagesWithSystem) can produce
GenThrows ==
    { [ kind |-> "throw", content |-> "", tool_calls |-> << >>, error |-> "Azure OpenAI request failed" ],
      [ kind |-> "throw", content |-> "", tool_calls |-> << >>, error |-> "Unknown error" ] }

GeneratorTexts == { "That sounds difficult. What has been weighing on you?", ContentBlocks }

GenAnswers ==
    { [ kind |-> "text", content |-> c, tool_calls |-> << >>, error |-> "" ] : c \in GeneratorTexts }

GenToolCalls ==
    { [ kind |-> "tool_calls", content |-> "", tool_calls |-> Batch(order, n), error |-> "" ] :
        order \in RequestOrders, n \in 1..MaxBatch }

NotInvoked == [ kind |-> "not invoked", content |-> "", tool_calls |-> << >>, error |-> "" ]

\* JSON.stringify(response.content) of a non-string content
Stringify(content) == "[{\"type\":\"text\",\"text\":\"That sounds difficult.\"}]"

FALLBACK_RESPONSE == "I'm here to support your wellbeing. What's on your mind?"

\* typeof lastMessage?.content === 'string' ? lastMessage.content : ''
StringContent(message) ==
    IF message.content = ContentBlocks THEN "" ELSE message.content

\* variant: the inline check runs on every pass, on the latest human message
NeedsEmergencyCheck_EveryPass(s) ==
    \E i \in DOMAIN s.messages :
        /\ getMessageType(s.messages[i]) = "human"
        /\ StringContent(s.messages[i]) # ""

\* orchestrator.ts line 78: the inline check runs only for a new human message
NeedsEmergencyCheck(s) ==
    LET lastMessage == LastMessage(s.messages)
        messageType == getMessageType(lastMessage)
        userMessage == IF messageType = "human" THEN StringContent(lastMessage) ELSE ""
    IN  messageType = "human" /\ userMessage # ""

\* orchestrator.ts lines 91-100: the update of the emergency path
EmergencyUpdate ==
    [ messages |-> << AIMessage(EMERGENCY_MESSAGE, << >>) >>,
      isEmergency |-> TRUE,
      responseMessage |-> EMERGENCY_MESSAGE,
      responseMessageType |-> "emergency",
      responsePayload |-> CRISIS_RESOURCES ]

\* variant: a direct answer always resets the response to plain text
NormalFlowUpdate_AlwaysText(s, response) ==
    IF response.kind = "throw"
    THEN [ responseMessage |-> FALLBACK_RESPONSE,
           responseMessageType |-> "text",
           responsePayload |-> NullPayload,
           error |-> response.error ]
    ELSE IF Len(response.tool_calls) > 0
    THEN [ messages |-> << AIMessage(response.content, response.tool_calls) >> ]
    ELSE [ messages |-> << AIMessage(response.content, << >>) >>,
           responseMessage |->
               IF response.content = ContentBlocks
               THEN Stringify(response.content) ELSE response.content,
           responseMessageType |-> "text",
           responsePayload |-> NullPayload ]

\* variant: a direct answer keeps whatever payload is in state, whether or not
\* tools ran this turn
NormalFlowUpdate_KeepsAnyPayload(s, response) ==
    IF response.kind = "throw"
    THEN [ responseMessage |-> FALLBACK_RESPONSE,
           responseMessageType |-> "text",
           responsePayload |-> NullPayload,
           error |-> response.error ]
    ELSE IF Len(response.tool_calls) > 0
    THEN [ messages |-> << AIMessage(response.content, response.tool_calls) >> ]
    ELSE [ messages |-> << AIMessage(response.content, << >>) >>,
           responseMessage |->
               IF response.content = ContentBlocks
               THEN Stringify(response.content) ELSE response.content,
           responseMessageType |->
               IF s.responsePayload # NullPayload THEN s.responseMessageType ELSE "text",
           responsePayload |-> s.responsePayload ]

\* variant: the catch block leaves the type and payload in state as they are
NormalFlowUpdate_ErrorKeepsPayload(s, response) ==
    IF response.kind = "throw"
    THEN [ responseMessage |-> FALLBACK_RESPONSE,
           error |-> response.error ]
    ELSE IF Len(response.tool_calls) > 0
    THEN [ messages |-> << AIMessage(response.content, response.tool_calls) >> ]
    ELSE LET responseText ==
                 IF response.content = ContentBlocks
                 THEN Stringify(response.content) ELSE response.content
             hasToolResultsThisTurn ==
                 /\ getMessageType(LastMessage(s.messages)) = "tool"
                 /\ s.responsePayload # NullPayload
         IN  [ messages |-> << AIMessage(response.content, << >>) >>,
               responseMessage |-> responseText,
               responseMessageType |->
                   IF hasToolResultsThisTurn THEN s.responseMessageType ELSE "text",
               responsePayload |->
                   IF hasToolResultsThisTurn THEN s.responsePayload ELSE NullPayload ]

\* variant: a direct answer clears the emergency flag
NormalFlowUpdate_ClearsEmergency(s, response) ==
    IF response.kind = "throw"
    THEN [ responseMessage |-> FALLBACK_RESPONSE,
           responseMessageType |-> "text",
           responsePayload |-> NullPayload,
           error |-> response.error ]
    ELSE IF Len(response.tool_calls) > 0
    THEN [ messages |-> << AIMessage(response.content, response.tool_calls) >> ]
    ELSE LET responseText ==
                 IF response.content = ContentBlocks
                 THEN Stringify(response.content) ELSE response.content
             hasToolResultsThisTurn ==
                 /\ getMessageType(LastMessage(s.messages)) = "tool"
                 /\ s.responsePayload # NullPayload
         IN  [ messages |-> << AIMessage(response.content, << >>) >>,
               isEmergency |-> FALSE,
               responseMessage |-> responseText,
               responseMessageType |->
                   IF hasToolResultsThisTurn THEN s.responseMessageType ELSE "text",
               responsePayload |->
                   IF hasToolResultsThisTurn THEN s.responsePayload ELSE NullPayload ]

\* orchestrator.ts lines 103-163: the update of the normal flow, response being
\* what the main model produced
NormalFlowUpdate(s, response) ==
    IF response.kind = "throw"
    THEN [ responseMessage |-> FALLBACK_RESPONSE,
           responseMessageType |-> "text",
           responsePayload |-> NullPayload,
           error |-> response.error ]
    ELSE IF Len(response.tool_calls) > 0
    THEN [ messages |-> << AIMessage(response.content, response.tool_calls) >> ]
    ELSE LET responseText ==
                 IF response.content = ContentBlocks
                 THEN Stringify(response.content) ELSE response.content
             lastMessageBeforeResponse == LastMessage(s.messages)
             hasToolResultsThisTurn ==
                 /\ getMessageType(lastMessageBeforeResponse) = "tool"
                 /\ s.responsePayload # NullPayload
         IN  [ messages |-> << AIMessage(response.content, << >>) >>,
               responseMessage |-> responseText,
               responseMessageType |->
                   IF hasToolResultsThisTurn THEN s.responseMessageType ELSE "text",
               responsePayload |->
                   IF hasToolResultsThisTurn THEN s.responsePayload ELSE NullPayload ]

\* the inline check ran and was positive
EmergencyDetected(s, classifierOutput) ==
    NeedsEmergencyCheck(s) /\ checkEmergency(classifierOutput).isEmergency

\* orchestratorNode: the partial update it returns
orchestratorNode(s, classifierOutput, response) ==
    IF EmergencyDetected(s, classifierOutput)
    THEN EmergencyUpdate
    ELSE NormalFlowUpdate(s, response)

\* variant: the emergency flag is not looked at when routing
routeAfterOrchestrator_NoEmergencyExit(s) ==
    LET lastMessage == LastMessage(s.messages)
    IN  IF getMessageType(lastMessage) = "ai" /\ Len(lastMessage.tool_calls) > 0
        THEN "tools"
        ELSE IF s.responsePayload # NullPayload /\ s.responseMessageType # "text"
        THEN "followup"
        ELSE "END"

\* variant: pending tool calls are looked at before the emergency flag
routeAfterOrchestrator_ToolCallsFirst(s) ==
    LET lastMessage == LastMessage(s.messages)
    IN  IF getMessageType(lastMessage) = "ai" /\ Len(lastMessage.tool_calls) > 0
        THEN "tools"
        ELSE IF s.isEmergency THEN "END"
        ELSE IF s.responsePayload # NullPayload /\ s.responseMessageType # "text"
        THEN "followup"
        ELSE "END"

\* variant: after a generator failure the orchestrator node is run again
routeAfterOrchestrator_RetriesOnError(s) ==
    IF s.isEmergency THEN "END"
    ELSE IF s.error # NullStr THEN "orchestrator"
    ELSE LET lastMessage == LastMessage(s.messages)
         IN  IF getMessageType(lastMessage) = "ai" /\ Len(lastMessage.tool_calls) > 0
             THEN "tools"
             ELSE IF s.responsePayload # NullPayload /\ s.responseMessageType # "text"
             THEN "followup"
             ELSE "END"

\* variant: every answer without tool calls is followed by a follow-up question
routeAfterOrchestrator_AlwaysFollowup(s) ==
    IF s.isEmergency THEN "END"
    ELSE LET lastMessage == LastMessage(s.messages)
         IN  IF getMessageType(lastMessage) = "ai" /\ Len(lastMessage.tool_calls) > 0
             THEN "tools"
             ELSE "followup"

\* routeAfterOrchestrator of graph/index.ts, mapped to the node it leads to
routeAfterOrchestrator(s) ==
    IF s.isEmergency THEN "END"
    ELSE LET lastMessage == LastMessage(s.messages)
         IN  IF getMessageType(lastMessage) = "ai" /\ Len(lastMessage.tool_calls) > 0
             THEN "tools"
             ELSE IF s.responsePayload # NullPayload /\ s.responseMessageType # "text"
             THEN "followup"
             ELSE "END"

-----------------------------------------------------------------------------
(* Tool results: schemas, parsing and state projection                     *)

MessageTypes ==
    { "text", "emergency", "expert_profiles", "expert_availability",
      "session_booked", "content_recommendations" }

HasFields(obj, fields) == fields \subseteq DOMAIN obj

CrisisResourceSchema(r) == HasFields(r, { "name", "number", "label" })

ExpertSchema(e) ==
    HasFields(e, { "id", "name", "title", "specializations", "languages" })

TimeSlotSchema(t) ==
    HasFields(t, { "id", "expertId", "startTime", "endTime", "available" })

ContentItemSchema(i) ==
    /\ HasFields(i, { "id", "title", "type", "topic", "url", "language" })
    /\ i.type \in { "articles", "videos" }

SessionTypeSchema(t) == t \in { "general", "physical-wellbeing" }

BookedSessionSchema(b) ==
    /\ HasFields(b, { "sessionId", "expert", "slot", "sessionType" })
    /\ ExpertSchema(b.expert)
    /\ TimeSlotSchema(b.slot)
    /\ SessionTypeSchema(b.sessionType)

EmergencyPayloadSchema(p) ==
    /\ HasFields(p, { "severity", "resources" })
    /\ p.severity \in { "high", "medium" }
    /\ \A i \in DOMAIN p.resources : CrisisResourceSchema(p.resources[i])

ExpertProfilesPayloadSchema(p) ==
    /\ HasFields(p, { "experts" })
    /\ \A i \in DOMAIN p.experts : ExpertSchema(p.experts[i])
    /\ "searchCriteria" \in DOMAIN p =>
          /\ HasFields(p.searchCriteria, { "sessionType" })
          /\ SessionTypeSchema(p.searchCriteria.sessionType)

ExpertAvailabilityPayloadSchema(p) ==
    /\ HasFields(p, { "expert", "slots", "timezone" })
    /\ ExpertSchema(p.expert)
    /\ \A i \in DOMAIN p.slots : TimeSlotSchema(p.slots[i])

SessionBookedPayloadSchema(p) ==
    /\ HasFields(p, { "session", "confirmationMessage" })
    /\ BookedSessionSchema(p.session)

\* variant: the topic of a content payload is optional
ContentRecommendationsPayloadSchema_TopicOptional(p) ==
    /\ HasFields(p, { "items" })
    /\ \A i \in DOMAIN p.items : ContentItemSchema(p.items[i])

ContentRecommendationsPayloadSchema(p) ==
    /\ HasFields(p, { "items", "topic" })
    /\ \A i \in DOMAIN p.items : ContentItemSchema(p.items[i])

\* PayloadSchemas[messageType].safeParse(payload).success
PayloadSchemas(messageType, payload) ==
    CASE messageType = "text"                    -> payload = NullPayload
      [] messageType = "emergency"               -> EmergencyPayloadSchema(payload)
      [] messageType = "expert_profiles"         -> ExpertProfilesPayloadSchema(payload)
      [] messageType = "expert_availability"     -> ExpertAvailabilityPayloadSchema(payload)
      [] messageType = "session_booked"          -> SessionBookedPayloadSchema(payload)
      [] messageType = "content_recommendations" -> ContentRecommendationsPayloadSchema(payload)

\* variant: the registry has no entry for the emergency type
PayloadSchemaKeys_NoEmergency ==
    { "text", "expert_profiles", "expert_availability",
      "session_booked", "content_recommendations" }

\* the keys of the PayloadSchemas record
PayloadSchemaKeys ==
    { "text", "emergency", "expert_profiles", "expert_availability",
      "session_booked", "content_recommendations" }

\* ToolResultSchema.safeParse(parsed).success
ToolResultSchema(parsed) ==
    /\ HasFields(parsed, { "messageType", "textContent" })
    /\ parsed.messageType \in MessageTypes

\* sample entities the search and booking backends return
Article ==
    [ id |-> "c1", title |-> "Stress 101", type |-> "articles", topic |-> "stress",
      url |-> "https://openup.com/c1", language |-> "en-GB" ]

Video ==
    [ id |-> "c2", title |-> "Breathing", type |-> "videos", topic |-> "stress",
      url |-> "https://openup.com/c2", language |-> "en-GB" ]

\* an index document without the language field
ArticleNoLanguage ==
    [ id |-> "c3", title |-> "Sleep", type |-> "articles", topic |-> "stress",
      url |-> "https://openup.com/c3" ]

Expert ==
    [ id |-> "expert_1", name |-> "Dr. Sarah van Berg", title |-> "Psychologist",
      specializations |-> << "Stress", "Anxiety" >>, languages |-> << "en-GB", "nl-NL" >> ]

\* an index document without the title field
ExpertNoTitle ==
    [ id |-> "expert_2", name |-> "Jan de Vries",
      specializations |-> << "Stress" >>, languages |-> << "nl-NL" >> ]

TimeSlot ==
    [ id |-> "slot_0_9", expertId |-> "expert_1", startTime |-> "2026-01-05T09:00:00Z",
      endTime |-> "2026-01-05T09:45:00Z", available |-> TRUE ]

BookedSession ==
    [ sessionId |-> "session_1", expert |-> Expert, slot |-> TimeSlot,
      sessionType |-> "general", meetingUrl |-> "https://meet.openup.com/session/abc123",
      calendarLink |-> "https://calendar.openup.com/add/abc123" ]

\* the strings the registered tools return (JSON.stringify of a ToolResult)
CONTENT_FOUND == "{messageType: content_recommendations, payload: {items: [c1, c2], topic: stress, totalCount: 2}, textContent: I found 2 resources}"

CONTENT_NONE == "{messageType: content_recommendations, payload: {items: [], topic: stress, totalCount: 0}, textContent: I couldn't find specific content}"

CONTENT_BAD_ITEM == "{messageType: content_recommendations, payload: {items: [c1, c3 without language], topic: stress, totalCount: 2}, textContent: I found 2 resources}"

EXPERTS_FOUND == "{messageType: expert_profiles, payload: {experts: [expert_1], searchCriteria: {sessionType: general}}, textContent: I found 1 experts}"

EXPERTS_BAD_EXPERT == "{messageType: expert_profiles, payload: {experts: [expert_2 without title], searchCriteria: {sessionType: general}}, textContent: I found 1 experts}"

AVAILABILITY == "{messageType: expert_availability, payload: {expert: expert_1, slots: [slot_0_9], timezone: Europe/Amsterdam}, textContent: Here are the available time slots}"

SESSION_BOOKED == "{messageType: session_booked, payload: {session: session_1, confirmationMessage: Your session has been booked!}, textContent: Great! Your session is confirmed}"

\* JSON.parse of a tool message content
JsonParseToolContent(content) ==
    CASE content = CONTENT_FOUND ->
           [ messageType |-> "content_recommendations",
             payload |-> [ items |-> << Article, Video >>, topic |-> "stress", totalCount |-> 2 ],
             textContent |-> "I found 2 resources about stress that might help you." ]
      [] content = CONTENT_NONE ->
           [ messageType |-> "content_recommendations",
             payload |-> [ items |-> << >>, topic |-> "stress", totalCount |-> 0 ],
             textContent |-> "I couldn't find specific content about stress. Would you like me to search for something related?" ]
      [] content = CONTENT_BAD_ITEM ->
           [ messageType |-> "content_recommendations",
             payload |-> [ items |-> << Article, ArticleNoLanguage >>, topic |-> "stress", totalCount |-> 2 ],
             textContent |-> "I found 2 resources about stress that might help you." ]
      [] content = EXPERTS_FOUND ->
           [ messageType |-> "expert_profiles",
             payload |-> [ experts |-> << Expert >>, searchCriteria |-> [ sessionType |-> "general" ] ],
             textContent |-> "I found 1 experts who can help you with general. Take a look at their profiles." ]
      [] content = EXPERTS_BAD_EXPERT ->
           [ messageType |-> "expert_profiles",
             payload |-> [ experts |-> << ExpertNoTitle >>, searchCriteria |-> [ sessionType |-> "general" ] ],
             textContent |-> "I found 1 experts who can help you with general. Take a look at their profiles." ]
      [] content = AVAILABILITY ->
           [ messageType |-> "expert_availability",
             payload |-> [ expert |-> Expert, slots |-> << TimeSlot >>, timezone |-> "Europe/Amsterdam" ],
             textContent |-> "Here are the available time slots for Dr. Sarah van Berg. Pick a time that works for you." ]
      [] content = SESSION_BOOKED ->
           [ messageType |-> "session_booked",
             payload |-> [ session |-> BookedSession,
                           confirmationMessage |-> "Your session has been booked! You will receive a confirmation email shortly." ],
             textContent |-> "Great! Your session with Dr. Sarah van Berg is confirmed. You'll receive all the details by email." ]
      [] OTHER -> SyntaxError

\* parseToolResult returning null
NullResult == [ null |-> TRUE ]

\* variant: parseToolResult without the payload check of lines 31-39
parseToolResult_NoPayloadCheck(jsonString) ==
    LET parsed == JsonParseToolContent(jsonString)
    IN  IF parsed = SyntaxError THEN NullResult
        ELSE IF ~ToolResultSchema(parsed) THEN NullResult
        ELSE parsed

\* parseToolResult of types/helpers.ts
parseToolResult(jsonString) ==
    LET parsed == JsonParseToolContent(jsonString)
    IN  IF parsed = SyntaxError THEN NullResult
        ELSE IF ~ToolResultSchema(parsed) THEN NullResult
        \* a messageType without a registered schema: .safeParse of undefined
        \* throws and the catch returns null
        ELSE IF parsed.messageType \notin PayloadSchemaKeys THEN NullResult
        ELSE IF ~PayloadSchemas(parsed.messageType, parsed.payload) THEN NullResult
        ELSE parsed

\* variant: a list of experts also clears the cached content items
extractStateUpdates_ExpertsClearContent(result) ==
    LET updates == [ responseMessageType |-> result.messageType,
                     responsePayload |-> result.payload,
                     responseMessage |-> result.textContent ]
        payload == result.payload
    IN  CASE result.messageType = "expert_profiles" /\ "experts" \in DOMAIN payload ->
               [ experts |-> payload.experts, contentItems |-> << >> ] @@ updates
          [] result.messageType = "expert_availability" /\ "slots" \in DOMAIN payload ->
               [ timeSlots |-> payload.slots ] @@ updates
          [] result.messageType = "content_recommendations" /\ "items" \in DOMAIN payload ->
               IF "topic" \in DOMAIN payload
               THEN [ contentItems |-> payload.items, contentTopic |-> payload.topic ] @@ updates
               ELSE [ contentItems |-> payload.items ] @@ updates
          [] result.messageType = "session_booked" /\ "session" \in DOMAIN payload ->
               [ selectedExpertId |-> payload.session.expert.id,
                 selectedSlotId |-> payload.session.slot.id ] @@ updates
          [] result.messageType = "emergency" ->
               [ isEmergency |-> TRUE ] @@ updates
          [] OTHER -> updates

\* extractStateUpdates of types/helpers.ts
extractStateUpdates(result) ==
    LET updates == [ responseMessageType |-> result.messageType,
                     responsePayload |-> result.payload,
                     responseMessage |-> result.textContent ]
        payload == result.payload
    IN  CASE result.messageType = "expert_profiles" /\ "experts" \in DOMAIN payload ->
               [ experts |-> payload.experts ] @@ updates
          [] result.messageType = "expert_availability" /\ "slots" \in DOMAIN payload ->
               [ timeSlots |-> payload.slots ] @@ updates
          [] result.messageType = "content_recommendations" /\ "items" \in DOMAIN payload ->
               IF "topic" \in DOMAIN payload
               THEN [ contentItems |-> payload.items, contentTopic |-> payload.topic ] @@ updates
               ELSE [ contentItems |-> payload.items ] @@ updates
          [] result.messageType = "session_booked" /\ "session" \in DOMAIN payload ->
               [ selectedExpertId |-> payload.session.expert.id,
                 selectedSlotId |-> payload.session.slot.id ] @@ updates
          [] result.messageType = "emergency" ->
               [ isEmergency |-> TRUE ] @@ updates
          [] OTHER -> updates

-----------------------------------------------------------------------------
(* Tools node and follow-up node                                           *)

\* the handler of a tool call threw
TOOL_THROWS == "<<tool.invoke threw>>"

\* what tool.invoke(toolCall.args) can produce for each registered tool
ToolOutcomes(name) ==
    CASE name = "search_content" ->
           { CONTENT_FOUND, CONTENT_NONE, CONTENT_BAD_ITEM, TOOL_THROWS }
      [] name = "search_experts" ->
           { EXPERTS_FOUND, EXPERTS_BAD_EXPERT, TOOL_THROWS }
      [] name = "get_expert_availability" -> { AVAILABILITY, TOOL_THROWS }
      [] name = "book_session" -> { SESSION_BOOKED, TOOL_THROWS }
      [] OTHER -> { "not invoked" }

\* `Tool ${toolCall.name} not found`
NotFoundContent(name) ==
    CASE name = "fetch_x" -> "Tool fetch_x not found"
      [] OTHER -> "Tool <name> not found"

\* `Error executing tool: ${error}`
ErrorContent == "Error executing tool: Error: search service unavailable"

\* variant: an unregistered name is invoked like any other and fails
ToolResultMessage_UnknownInvoked(toolCall, outcome) ==
    IF toolCall.name \notin ToolNames
    THEN ToolMessage(toolCall.id, ErrorContent)
    ELSE IF outcome = TOOL_THROWS
    THEN ToolMessage(toolCall.id, ErrorContent)
    ELSE ToolMessage(toolCall.id, outcome)

\* the ToolMessage pushed for one tool call (tools.ts lines 129-161)
ToolResultMessage(toolCall, outcome) ==
    IF toolCall.name \notin ToolNames
    THEN ToolMessage(toolCall.id, NotFoundContent(toolCall.name))
    ELSE IF outcome = TOOL_THROWS
    THEN ToolMessage(toolCall.id, ErrorContent)
    ELSE ToolMessage(toolCall.id, outcome)

\* an update that names no channel
EmptyUpdate == << >>

RECURSIVE SumTo(_, _)
SumTo(durations, i) == IF i = 0 THEN 0 ELSE SumTo(durations, i - 1) + durations[i]

\* toolResults after every push happened: a ToolMessage is pushed when the
\* handling of its call completes, the earlier call first at the same instant
PushOrder(tool_calls, outcomes, completedAt) ==
    LET n == Len(tool_calls)
        Before(i, j) ==
            \/ completedAt[i] < completedAt[j]
            \/ completedAt[i] = completedAt[j] /\ i < j
        callAt(k) ==
            CHOOSE i \in 1..n : Cardinality({ j \in 1..n : Before(j, i) }) + 1 = k
    IN  [ k \in 1..n |-> ToolResultMessage(tool_calls[callAt(k)], outcomes[callAt(k)]) ]

\* variant: all handlers are started together, each pushing when it is done
ExecuteToolCalls_Concurrent(tool_calls, outcomes, durations) ==
    PushOrder(tool_calls, outcomes, durations)

\* variant: no try/catch around tool.invoke, the loop ends at the first throw
ExecuteToolCalls_AbortsOnThrow(tool_calls, outcomes, durations) ==
    LET n == Len(tool_calls)
        thrown == { i \in 1..n : tool_calls[i].name \in ToolNames /\ outcomes[i] = TOOL_THROWS }
        done == IF thrown = { } THEN n
                ELSE CHOOSE i \in thrown : \A j \in thrown : i <= j
    IN  [ i \in 1..done |-> ToolResultMessage(tool_calls[i], outcomes[i]) ]

\* variant: an unregistered name is skipped without pushing a message
ExecuteToolCalls_SkipsUnknown(tool_calls, outcomes, durations) ==
    LET n == Len(tool_calls)
        IsRegistered(i) == tool_calls[i].name \in ToolNames
        registered == SelectSeq([ i \in 1..n |-> i ], IsRegistered)
    IN  [ k \in 1..Len(registered) |->
            ToolResultMessage(tool_calls[registered[k]], outcomes[registered[k]]) ]

\* the for loop of tools.ts lines 127-161: the calls are handled one after the
\* other, each pushing exactly one ToolMessage before the next one starts
\* durations[i] being how long the handler of the i-th call runs
ExecuteToolCalls(tool_calls, outcomes, durations) ==
    LET n == Len(tool_calls)
        \* `await tool.invoke`: a handler starts when the one before it is done
        completedAt == [ i \in 1..n |-> SumTo(durations, i) ]
    IN  PushOrder(tool_calls, outcomes, completedAt)

\* variant: the payload of the parsed tool output is not checked against the
\* schema of its messageType before it is merged
toolExecutorNode_NoPayloadValidation(s, outcomes, durations) ==
    LET lastMessage == LastMessage(s.messages)
    IN  IF getMessageType(lastMessage) # "ai" THEN EmptyUpdate
        ELSE IF Len(lastMessage.tool_calls) = 0 THEN EmptyUpdate
        ELSE LET toolResults == ExecuteToolCalls(lastMessage.tool_calls, outcomes, durations)
                 lastToolMessage == toolResults[Len(toolResults)]
                 parsed == JsonParseToolContent(lastToolMessage.content)
             IN  IF parsed # SyntaxError /\ ToolResultSchema(parsed)
                 THEN extractStateUpdates(parsed) @@ [ messages |-> toolResults ]
                 ELSE [ messages |-> toolResults ]

\* toolExecutorNode of graph/nodes/tools.ts: the partial update it returns,
\* outcomes[i] being what the handler of the i-th call produced and
\* durations[i] how long it ran
toolExecutorNode(s, outcomes, durations) ==
    LET lastMessage == LastMessage(s.messages)
    IN  IF getMessageType(lastMessage) # "ai" THEN EmptyUpdate
        ELSE IF Len(lastMessage.tool_calls) = 0 THEN EmptyUpdate
        ELSE LET toolResults == ExecuteToolCalls(lastMessage.tool_calls, outcomes, durations)
                 lastToolMessage == toolResults[Len(toolResults)]
                 toolResult == parseToolResult(lastToolMessage.content)
             IN  \* line 165: toolResults.at(-1) of an empty array is undefined
                 IF Len(toolResults) = 0 THEN [ messages |-> toolResults ]
                 ELSE IF toolResult # NullResult
                 THEN extractStateUpdates(toolResult) @@ [ messages |-> toolResults ]
                 ELSE [ messages |-> toolResults ]

\* routeAfterTools of graph/index.ts, mapped to the node it leads to
routeAfterTools(s) ==
    IF getMessageType(LastMessage(s.messages)) = "tool" THEN "orchestrator" ELSE "END"

\* what the follow-up model call can produce
FollowupOutcomes ==
    { [ kind |-> "throw", content |-> "" ],
      [ kind |-> "text", content |-> "  Would you like me to find more resources?  " ],
      [ kind |-> "text", content |-> ContentBlocks ] }

\* response.content.trim()
Trim(content) ==
    CASE content = "  Would you like me to find more resources?  " ->
           "Would you like me to find more resources?"
      [] OTHER -> content

\* variant: on a failure the node returns no update at all
followupNode_NoUpdateOnError(s, response) ==
    IF response.kind = "throw"
    THEN EmptyUpdate
    ELSE [ followupQuestion |->
             IF response.content = ContentBlocks THEN "" ELSE Trim(response.content) ]

\* followupNode of graph/nodes/followup.ts: the partial update it returns
followupNode(s, response) ==
    IF response.kind = "throw"
    THEN [ followupQuestion |-> NullStr ]
    ELSE [ followupQuestion |->
             IF response.content = ContentBlocks THEN "" ELSE Trim(response.content) ]

-----------------------------------------------------------------------------
(* The main graph: START -> orchestrator -> (tools | followup | END)       *)

\* channel values a caller passes to graph.invoke
InitialInputs ==
    { \* a new user turn
      [ messages |-> << HumanMessage("I have been feeling very stressed lately") >> ],
      \* a new user turn after earlier turns
      [ messages |-> << HumanMessage("hi"), AIMessage("Hello, how are you?", << >>),
                        HumanMessage("can you find me an expert") >> ],
      \* a new user turn on top of the state the previous turn ended with
      [ messages |-> << HumanMessage("show me articles about stress"),
                        AIMessage("Here is what I found.", << >>),
                        HumanMessage("thanks, that is all") >>,
        responseMessage |-> "Here is what I found.",
        responseMessageType |-> "content_recommendations",
        responsePayload |-> [ items |-> << Article >>, topic |-> "stress", totalCount |-> 1 ],
        contentItems |-> << Article >>,
        contentTopic |-> "stress",
        followupQuestion |-> "Would you like me to find more resources?" ],
      \* a new user turn after a turn that ended in the emergency response
      [ messages |-> << HumanMessage("I can't go on"), AIMessage(EMERGENCY_MESSAGE, << >>),
                        HumanMessage("I am safe now") >>,
        isEmergency |-> TRUE,
        responseMessage |-> EMERGENCY_MESSAGE,
        responseMessageType |-> "emergency",
        responsePayload |-> CRISIS_RESOURCES ],
      \* a user message with empty text, one made of content blocks
      [ messages |-> << HumanMessage("") >> ],
      [ messages |-> << HumanMessage(ContentBlocks) >> ],
      \* no message at all
      [ messages |-> << >> ] }

Init ==
    /\ state \in { Reduce(GraphDefaults, input) : input \in InitialInputs }
    /\ node = "orchestrator"
    /\ step = NoStep
    /\ path = << >>
    /\ toolRounds = 0
    /\ CBIdle
    /\ ValidatorIdle

\* what the classifier can answer on this pass
ClassifierAnswers(s) ==
    IF NeedsEmergencyCheck(s) THEN ClassifierOutputs ELSE { "not invoked" }

\* what the generator can answer on this pass
GeneratorAnswers(s, classifierOutput) ==
    IF EmergencyDetected(s, classifierOutput)
    THEN { NotInvoked }
    ELSE GenThrows \cup GenAnswers
           \cup (IF toolRounds < MaxToolRounds THEN GenToolCalls ELSE { })

\* the orchestrator node runs, its update is merged, the conditional edge is taken
Orchestrate(classifierOutput, response) ==
    /\ node = "orchestrator"
    /\ classifierOutput \in ClassifierAnswers(state)
    /\ response \in GeneratorAnswers(state, classifierOutput)
    /\ LET update == orchestratorNode(state, classifierOutput, response)
           merged == Reduce(state, update)
       IN  /\ state' = merged
           /\ node' = routeAfterOrchestrator(merged)
    /\ step' = [ node |-> "orchestrator", classifier |-> classifierOutput,
                 generator |-> response.kind, tools |-> << >>,
                 outcomes |-> << >>, durations |-> << >>,
                 followup |-> "not invoked" ]
    /\ path' = Append(path, "orchestrator")
    /\ UNCHANGED toolRounds
    /\ UNCHANGED << cbVars, valVars >>

\* the tool calls pending on the last message
PendingToolCalls(s) ==
    LET lastMessage == LastMessage(s.messages)
    IN  IF getMessageType(lastMessage) = "ai" THEN lastMessage.tool_calls ELSE << >>

AllToolOutcomes ==
    UNION { ToolOutcomes(name) : name \in ToolNames } \cup { "not invoked" }

\* what the handlers of a batch can produce, call by call
BatchOutcomes(calls) ==
    { outcomes \in [ 1..Len(calls) -> AllToolOutcomes ] :
        \A i \in 1..Len(calls) : outcomes[i] \in ToolOutcomes(calls[i].name) }

\* how long a handler can run, in ticks; an unregistered name runs no handler
HandlerDurations == { 1, 2 }

BatchDurations(calls) ==
    { durations \in [ 1..Len(calls) -> HandlerDurations \cup { 0 } ] :
        \A i \in 1..Len(calls) :
            durations[i] = 0 <=> calls[i].name \notin ToolNames }

\* the names of the calls whose handler was invoked
InvokedTools(calls) ==
    [ i \in 1..Len(calls) |->
        IF calls[i].name \in ToolNames THEN calls[i].name ELSE "not invoked" ]

\* the tools node runs, its update is merged, the conditional edge is taken
ExecuteTools(outcomes, durations) ==
    /\ node = "tools"
    /\ outcomes \in BatchOutcomes(PendingToolCalls(state))
    /\ durations \in BatchDurations(PendingToolCalls(state))
    /\ LET update == toolExecutorNode(state, outcomes, durations)
           merged == Reduce(state, update)
       IN  /\ state' = merged
           /\ node' = routeAfterTools(merged)
    /\ step' = [ node |-> "tools", classifier |-> "not invoked",
                 generator |-> "not invoked",
                 tools |-> InvokedTools(PendingToolCalls(state)),
                 outcomes |-> outcomes, durations |-> durations,
                 followup |-> "not invoked" ]
    /\ path' = Append(path, "tools")
    /\ toolRounds' = toolRounds + 1
    /\ UNCHANGED << cbVars, valVars >>

\* the follow-up node runs, its update is merged, the edge to END is taken
GenerateFollowup(response) ==
    /\ node = "followup"
    /\ response \in FollowupOutcomes
    /\ state' = Reduce(state, followupNode(state, response))
    /\ node' = "END"
    /\ step' = [ node |-> "followup", classifier |-> "not invoked",
                 generator |-> "not invoked", tools |-> << >>,
                 outcomes |-> << >>, durations |-> << >>,
                 followup |-> response.kind ]
    /\ path' = Append(path, "followup")
    /\ UNCHANGED toolRounds
    /\ UNCHANGED << cbVars, valVars >>

Next ==
    \/ \E classifierOutput \in ClassifierOutputs \cup { "not invoked" },
          response \in GenThrows \cup GenAnswers \cup GenToolCalls \cup { NotInvoked } :
            Orchestrate(classifierOutput, response)
    \/ \E outcomes \in UNION { BatchOutcomes(Batch(order, n)) :
                                 order \in RequestOrders, n \in 1..MaxBatch },
          durations \in UNION { BatchDurations(Batch(order, n)) :
                                  order \in RequestOrders, n \in 1..MaxBatch } :
            ExecuteTools(outcomes, durations)
    \/ \E response \in FollowupOutcomes : GenerateFollowup(response)

Spec == Init /\ [][Next]_vars

-----------------------------------------------------------------------------
\* the runtime runs the node an edge has led to, and the follow-up model call
\* settles (it returns or throws): a pending follow-up step is eventually
\* taken. The other nodes need no fairness for the turn to end once a pass
\* of the orchestrator has produced no tool calls.
FairSpec ==
    Spec /\ WF_vars(\E response \in FollowupOutcomes : GenerateFollowup(response))

(* validatePayload of types/helpers.ts and the schema registry             *)

\* the MessageType union of types/index.ts
MessageType ==
    { "text", "emergency", "expert_profiles", "expert_availability",
      "session_booked", "content_recommendations" }

\* validatePayload: PayloadSchemas[messageType] of a key that is not there is
\* undefined and .safeParse on it throws
validatePayload(messageType, payload) ==
    IF messageType \notin PayloadSchemaKeys
    THEN [ success |-> FALSE, thrown |-> TRUE ]
    ELSE [ success |-> PayloadSchemas(messageType, payload), thrown |-> FALSE ]

\* number of times one pair is validated
MaxValidations == 2

\* record without one of its fields
Without(record, field) == [ k \in DOMAIN record \ { field } |-> record[k] ]

\* a payload of each type as the tools and the emergency path build it
SamplePayloads ==
    { CRISIS_RESOURCES,
      [ experts |-> << Expert >>, searchCriteria |-> [ sessionType |-> "general" ] ],
      [ expert |-> Expert, slots |-> << TimeSlot >>, timezone |-> "Europe/Amsterdam" ],
      [ session |-> BookedSession, confirmationMessage |-> "Your session has been booked!" ],
      [ items |-> << Article, Video >>, topic |-> "stress", totalCount |-> 2 ] }

\* the same payloads with one top-level field missing
TruncatedPayloads == UNION { { Without(p, f) : f \in DOMAIN p } : p \in SamplePayloads }

\* payloads whose nested entity misses one field or carries a value outside
\* its enumeration
DamagedPayloads ==
    { [ experts |-> << Without(Expert, f) >> ] : f \in DOMAIN Expert }
      \cup { [ expert |-> Expert, slots |-> << TimeSlot, Without(TimeSlot, f) >>,
               timezone |-> "Europe/Amsterdam" ] : f \in DOMAIN TimeSlot }
      \cup { [ session |-> Without(BookedSession, f), confirmationMessage |-> "Booked" ] :
               f \in DOMAIN BookedSession }
      \cup { [ items |-> << Article, Without(Video, f) >>, topic |-> "stress" ] :
               f \in DOMAIN Video }
      \cup { [ severity |-> "high",
               resources |-> << Without(CRISIS_RESOURCES.resources[1], f) >> ] :
               f \in DOMAIN CRISIS_RESOURCES.resources[1] }
      \cup { [ severity |-> "low", resources |-> CRISIS_RESOURCES.resources ],
             [ items |-> << [ Article EXCEPT !.type = "podcasts" ] >>, topic |-> "stress" ],
             [ experts |-> << Expert >>, searchCriteria |-> [ sessionType |-> "coaching" ] ] }

CandidatePayloads ==
    { NullPayload } \cup SamplePayloads \cup TruncatedPayloads \cup DamagedPayloads

InitValidate ==
    /\ vInput \in [ messageType : MessageType, payload : CandidatePayloads ]
    /\ vVerdicts = << >>
    /\ CBIdle
    /\ GraphIdle

\* validatePayload is called on the pair once more
Validate ==
    /\ Len(vVerdicts) < MaxValidations
    /\ vVerdicts' = Append(vVerdicts, validatePayload(vInput.messageType, vInput.payload))
    /\ UNCHANGED << vInput, cbVars, graphVars >>

NextValidate == Validate

SpecValidate == InitValidate /\ [][NextValidate]_vars

-----------------------------------------------------------------------------

(* The deployment graph of graph/deployment.ts:                            *)
(* START -> emergency_check -> (emergency_response | orchestrator <-> tools) *)

\* the default() of every channel of the deployment GraphState
DeploymentDefaults ==
    [ messages |-> << >>,
      conversationLanguage |-> "en-GB",
      conversationId |-> "",
      isEmergency |-> FALSE,
      emergencyChecked |-> FALSE,
      responseMessage |-> NullStr ]

\* the text emergencyResponseNode returns
SAFETY_TEXT ==
    "I'm concerned about what you're sharing. Your safety matters most right now. [...] Are you safe right now? Is someone with you?"

\* emergencyNode of deployment.ts: the partial update it returns
emergencyNode(s, classifierOutput) ==
    LET lastMessage == LastMessage(s.messages)
    IN  IF getMessageType(lastMessage) # "human"
        THEN [ isEmergency |-> FALSE, emergencyChecked |-> TRUE ]
        ELSE IF classifierOutput = THROWN
        THEN [ isEmergency |-> FALSE, emergencyChecked |-> TRUE ]
        ELSE LET result == JsonParse(classifierOutput)
             IN  IF result = SyntaxError
                 THEN [ isEmergency |-> FALSE, emergencyChecked |-> TRUE ]
                 ELSE [ isEmergency |-> IsStrictlyTrue(result), emergencyChecked |-> TRUE ]

emergencyResponseNode(s) == [ responseMessage |-> SAFETY_TEXT ]

\* orchestratorNode of deployment.ts: the partial update it returns
deploymentOrchestratorNode(s, response) ==
    IF response.kind = "throw"
    THEN [ responseMessage |-> FALLBACK_RESPONSE ]
    ELSE IF Len(response.tool_calls) > 0
    THEN [ messages |-> << AIMessage(response.content, response.tool_calls) >> ]
    ELSE [ messages |-> << AIMessage(response.content, << >>) >>,
           responseMessage |-> response.content ]

\* `Error: ${error}`
DeploymentErrorContent == "Error: Error: search service unavailable"

\* toolsNode of deployment.ts: the partial update it returns
toolsNode(s, outcomes) ==
    LET lastMessage == LastMessage(s.messages)
    IN  IF getMessageType(lastMessage) # "ai" THEN EmptyUpdate
        ELSE IF Len(lastMessage.tool_calls) = 0 THEN EmptyUpdate
        ELSE [ messages |->
                 [ i \in 1..Len(lastMessage.tool_calls) |->
                     LET call == lastMessage.tool_calls[i]
                     IN  IF call.name \notin ToolNames
                         THEN ToolMessage(call.id, NotFoundContent(call.name))
                         ELSE IF outcomes[i] = TOOL_THROWS
                         THEN ToolMessage(call.id, DeploymentErrorContent)
                         ELSE ToolMessage(call.id, outcomes[i]) ] ]

\* variant: the verdict of the safety check is not looked at when routing
routeAfterEmergency_AlwaysOrchestrator(s) == "orchestrator"

routeAfterEmergency(s) ==
    IF s.isEmergency THEN "emergency_response" ELSE "orchestrator"

shouldContinueOrchestrator(s) ==
    LET lastMessage == LastMessage(s.messages)
    IN  IF getMessageType(lastMessage) = "ai" /\ Len(lastMessage.tool_calls) > 0
        THEN "tools"
        ELSE "END"

\* channel values a caller passes to the deployed graph
DeploymentInputs ==
    { [ messages |-> << HumanMessage("I have been feeling very stressed lately") >> ],
      [ messages |-> << HumanMessage("hi"), AIMessage("Hello, how are you?", << >>),
                        HumanMessage("can you find me an expert") >> ],
      \* a new user turn on a thread whose previous turn was an emergency
      [ messages |-> << HumanMessage("I can't go on"), HumanMessage("I am safe now") >>,
        isEmergency |-> TRUE,
        emergencyChecked |-> TRUE,
        responseMessage |-> SAFETY_TEXT ],
      [ messages |-> << HumanMessage("hi"), AIMessage("Hello, how are you?", << >>) >> ],
      [ messages |-> << >> ] }

InitDeployment ==
    /\ state \in { Reduce(DeploymentDefaults, input) : input \in DeploymentInputs }
    /\ node = "emergency_check"
    /\ step = NoStep
    /\ path = << >>
    /\ toolRounds = 0
    /\ CBIdle
    /\ ValidatorIdle

\* what the classifier can answer: it is called only for a human message
DeploymentClassifierAnswers(s) ==
    IF getMessageType(LastMessage(s.messages)) = "human"
    THEN ClassifierOutputs ELSE { "not invoked" }

\* the emergency_check node runs and routeAfterEmergency is taken
EmergencyCheck(classifierOutput) ==
    /\ node = "emergency_check"
    /\ classifierOutput \in DeploymentClassifierAnswers(state)
    /\ LET merged == Reduce(state, emergencyNode(state, classifierOutput))
       IN  /\ state' = merged
           /\ node' = routeAfterEmergency(merged)
    /\ step' = [ NoStep EXCEPT !.node = "emergency_check", !.classifier = classifierOutput ]
    /\ path' = Append(path, "emergency_check")
    /\ UNCHANGED toolRounds
    /\ UNCHANGED << cbVars, valVars >>

\* the emergency_response node runs, the edge to END is taken
EmergencyResponse ==
    /\ node = "emergency_response"
    /\ state' = Reduce(state, emergencyResponseNode(state))
    /\ node' = "END"
    /\ step' = [ NoStep EXCEPT !.node = "emergency_response" ]
    /\ path' = Append(path, "emergency_response")
    /\ UNCHANGED toolRounds
    /\ UNCHANGED << cbVars, valVars >>

\* what the orchestrator model can answer on this pass
DeploymentGeneratorAnswers ==
    GenThrows \cup GenAnswers
      \cup (IF toolRounds < MaxToolRounds THEN GenToolCalls ELSE { })

\* the orchestrator node runs and shouldContinueOrchestrator is taken
DeploymentOrchestrate(response) ==
    /\ node = "orchestrator"
    /\ response \in DeploymentGeneratorAnswers
    /\ LET merged == Reduce(state, deploymentOrchestratorNode(state, response))
       IN  /\ state' = merged
           /\ node' = shouldContinueOrchestrator(merged)
    /\ step' = [ NoStep EXCEPT !.node = "orchestrator", !.generator = response.kind ]
    /\ path' = Append(path, "orchestrator")
    /\ UNCHANGED toolRounds
    /\ UNCHANGED << cbVars, valVars >>

\* the tools node runs, the edge back to orchestrator is taken
DeploymentTools(outcomes) ==
    /\ node = "tools"
    /\ outcomes \in BatchOutcomes(PendingToolCalls(state))
    /\ state' = Reduce(state, toolsNode(state, outcomes))
    /\ node' = "orchestrator"
    /\ step' = [ NoStep EXCEPT !.node = "tools",
                               !.tools = InvokedTools(PendingToolCalls(state)),
                               !.outcomes = outcomes ]
    /\ path' = Append(path, "tools")
    /\ toolRounds' = toolRounds + 1
    /\ UNCHANGED << cbVars, valVars >>

NextDeployment ==
    \/ \E classifierOutput \in ClassifierOutputs \cup { "not invoked" } :
            EmergencyCheck(classifierOutput)
    \/ EmergencyResponse
    \/ \E response \in GenThrows \cup GenAnswers \cup GenToolCalls :
            DeploymentOrchestrate(response)
    \/ \E outcomes \in UNION { BatchOutcomes(Batch(order, n)) :
                                 order \in RequestOrders, n \in 1..MaxBatch } :
            DeploymentTools(outcomes)

SpecDeployment == InitDeployment /\ [][NextDeployment]_vars

-----------------------------------------------------------------------------

(* The content agent node of graph/nodes/contentAgent.ts                   *)

\* raw replies of the extraction model to CONTENT_REQUEST_PROMPT
E_TOPIC == "{\"contentTopic\": \"stress\", \"language\": null, \"contentType\": null, \"question\": null}"

E_TOPIC_VIDEOS_NL == "{\"contentTopic\": \"sleep\", \"language\": \"nl-NL\", \"contentType\": \"videos\", \"question\": null}"

E_QUESTION == "{\"contentTopic\": null, \"language\": null, \"contentType\": null, \"question\": \"What would you like to read about?\"}"

E_NO_TOPIC_NO_QUESTION == "{\"contentTopic\": null, \"language\": \"en-GB\", \"contentType\": \"articles\", \"question\": null}"

E_EMPTY_STRINGS == "{\"contentTopic\": \"\", \"language\": \"\", \"contentType\": null, \"question\": \"\"}"

E_TOPIC_AND_QUESTION == "{\"contentTopic\": \"stress\", \"language\": null, \"contentType\": null, \"question\": \"Articles or videos?\"}"

E_WRAPPED == "Here is the extraction: {\"contentTopic\": \"stress\", \"language\": null, \"contentType\": null, \"question\": null} Let me know."

E_PROSE == "I am not sure what you are looking for."

E_BROKEN == "{\"contentTopic\": stress}"

ExtractionOutputs ==
    { E_TOPIC, E_TOPIC_VIDEOS_NL, E_QUESTION, E_NO_TOPIC_NO_QUESTION, E_EMPTY_STRINGS,
      E_TOPIC_AND_QUESTION, E_WRAPPED, E_PROSE, E_BROKEN, ContentBlocks, THROWN }

\* jsonRegex.exec(content) with /\{[\s\S]*\}/: from the first "{" to the last "}"
ExtractionRegexMatch(content) ==
    CASE content = E_WRAPPED -> E_TOPIC
      [] content = E_PROSE -> NoMatch
      [] content = Stringify(ContentBlocks) ->
           "{\"type\":\"text\",\"text\":\"That sounds difficult.\"}"
      [] OTHER -> content

\* a property the parsed object does not have
UndefinedField == "<<undefined>>"

\* JSON.parse of the matched text
JsonParseExtraction(text) ==
    CASE text = E_TOPIC ->
           [ contentTopic |-> "stress", language |-> NullStr,
             contentType |-> NullStr, question |-> NullStr ]
      [] text = E_TOPIC_VIDEOS_NL ->
           [ contentTopic |-> "sleep", language |-> "nl-NL",
             contentType |-> "videos", question |-> NullStr ]
      [] text = E_QUESTION ->
           [ contentTopic |-> NullStr, language |-> NullStr,
             contentType |-> NullStr, question |-> "What would you like to read about?" ]
      [] text = E_NO_TOPIC_NO_QUESTION ->
           [ contentTopic |-> NullStr, language |-> "en-GB",
             contentType |-> "articles", question |-> NullStr ]
      [] text = E_EMPTY_STRINGS ->
           [ contentTopic |-> "", language |-> "",
             contentType |-> NullStr, question |-> "" ]
      [] text = E_TOPIC_AND_QUESTION ->
           [ contentTopic |-> "stress", language |-> NullStr,
             contentType |-> NullStr, question |-> "Articles or videos?" ]
      [] text = "{\"type\":\"text\",\"text\":\"That sounds difficult.\"}" ->
           [ contentTopic |-> UndefinedField, language |-> UndefinedField,
             contentType |-> UndefinedField, question |-> UndefinedField ]
      [] OTHER -> SyntaxError

\* value || null
OrNull(value) ==
    IF value \in { "", NullStr, UndefinedField } THEN NullStr ELSE value

NO_JSON_QUESTION ==
    "What topic would you like to explore? For example, managing stress, improving sleep, or building resilience."

EXTRACTION_ERROR_QUESTION == "What topic would you like to explore?"

AskInstead(question) ==
    [ contentTopic |-> NullStr, language |-> NullStr,
      contentType |-> NullStr, question |-> question ]

\* extractContentRequest of contentAgent.ts, output being what model.invoke produced
extractContentRequest(output) ==
    IF output = THROWN THEN AskInstead(EXTRACTION_ERROR_QUESTION)
    ELSE LET content == IF output = ContentBlocks THEN Stringify(output) ELSE output
             jsonMatch == ExtractionRegexMatch(content)
         IN  IF jsonMatch = NoMatch THEN AskInstead(NO_JSON_QUESTION)
             ELSE LET parsed == JsonParseExtraction(jsonMatch)
                  IN  IF parsed = SyntaxError THEN AskInstead(EXTRACTION_ERROR_QUESTION)
                      ELSE [ contentTopic |-> OrNull(parsed.contentTopic),
                             language |-> OrNull(parsed.language),
                             contentType |-> OrNull(parsed.contentType),
                             question |-> OrNull(parsed.question) ]

\* line 43: !extraction.contentTopic && extraction.question
AsksClarification(extraction) ==
    extraction.contentTopic = NullStr /\ extraction.question # NullStr

\* lines 46-56: the update of the clarification path
ClarificationUpdate(extraction) ==
    [ messages |-> << AIMessage(extraction.question, << >>) >>,
      responseMessage |-> extraction.question,
      responseMessageType |-> "text",
      responsePayload |-> NullPayload,
      intent |-> "ContentRecommendation" ]

\* lines 60-72: the request handed to searchService.search
SearchRequest(s, extraction) ==
    [ searchText |-> extraction.contentTopic,
      languageCode |->
          IF extraction.language # NullStr THEN extraction.language
          ELSE IF s.conversationLanguage # "" THEN s.conversationLanguage
          ELSE "en-GB",
      types |-> IF extraction.contentType # NullStr
                THEN << extraction.contentType >> ELSE NullStr,
      pageSize |-> 3 ]

\* searchService.search rejected
SEARCH_THROWS == [ thrown |-> "search service unavailable" ]

\* what searchService.search can settle with
SearchOutcomes ==
    { [ pagedResults |-> << Article, Video >>, totalCount |-> 2 ],
      [ pagedResults |-> << >>, totalCount |-> 0 ],
      SEARCH_THROWS }

\* a value inside a template literal
Interpolate(value) == IF value = NullStr THEN "null" ELSE value

\* lines 74-115: the update made from the search response
RecommendationsUpdate(extraction, searchResponse) ==
    LET topic == extraction.contentTopic
        items == searchResponse.pagedResults
        textContent ==
            IF Len(items) > 0
            THEN "I found " \o ToString(Len(items)) \o " resources about "
                   \o Interpolate(topic) \o " that might help you."
            ELSE "I couldn't find specific content about " \o Interpolate(topic)
                   \o ". Would you like me to search for something related?"
        payload == [ items |-> items, topic |-> topic,
                     totalCount |-> searchResponse.totalCount ]
    IN  [ messages |-> << AIMessage(textContent, << >>) >>,
          responseMessage |-> textContent,
          responseMessageType |-> "content_recommendations",
          responsePayload |-> payload,
          contentTopic |-> topic,
          contentLanguage |-> extraction.language,
          contentType |-> extraction.contentType,
          contentItems |-> items,
          intent |-> "ContentRecommendation",
          agentCompleted |-> "content" ]

\* lines 116-125: the update of the catch block
ContentErrorUpdate ==
    [ responseMessage |->
          "I'd like to help you find some content. What topic are you interested in?",
      responseMessageType |-> "text",
      responsePayload |-> NullPayload,
      error |-> SEARCH_THROWS.thrown ]

\* states the node is called in
ContentInputs ==
    { [ messages |-> << HumanMessage("can you recommend something to read") >> ],
      [ messages |-> << HumanMessage("I can't sleep"),
                        AIMessage("I'm sorry to hear that.", << >>),
                        HumanMessage("do you have any videos") >>,
        conversationLanguage |-> "nl-NL" ],
      \* on top of the state an earlier content request ended with
      [ messages |-> << HumanMessage("show me articles about stress"),
                        AIMessage("I found 1 resources about stress that might help you.", << >>),
                        HumanMessage("something else please") >>,
        responseMessage |-> "I found 1 resources about stress that might help you.",
        responseMessageType |-> "content_recommendations",
        responsePayload |-> [ items |-> << Article >>, topic |-> "stress", totalCount |-> 1 ],
        contentItems |-> << Article >>,
        contentTopic |-> "stress",
        intent |-> "ContentRecommendation",
        agentCompleted |-> "content" ],
      [ messages |-> << HumanMessage("articles please") >>, conversationLanguage |-> "" ],
      [ messages |-> << >> ] }

InitContent ==
    /\ state \in { Reduce(GraphDefaults, input) : input \in ContentInputs }
    /\ node = "content_agent"
    /\ step = NoStep
    /\ path = << >>
    /\ toolRounds = 0
    /\ CBIdle
    /\ ValidatorIdle

\* lines 37-72: the extraction settles; the node either returns the
\* clarifying question or issues the search and is suspended on it
ExtractRequest(output) ==
    /\ node = "content_agent"
    /\ output \in ExtractionOutputs
    /\ LET extraction == extractContentRequest(output)
       IN  IF AsksClarification(extraction)
           THEN /\ state' = Reduce(state, ClarificationUpdate(extraction))
                /\ node' = "END"
                /\ step' = [ NoStep EXCEPT !.node = "content_agent", !.generator = output ]
           ELSE /\ state' = state
                /\ node' = "content_agent: search"
                /\ step' = [ NoStep EXCEPT !.node = "content_agent", !.generator = output,
                                           !.tools = << SearchRequest(state, extraction) >> ]
    /\ path' = Append(path, "content_agent")
    /\ UNCHANGED toolRounds
    /\ UNCHANGED << cbVars, valVars >>

\* lines 67-125: the search settles and the node returns
SearchSettles(outcome) ==
    /\ node = "content_agent: search"
    /\ outcome \in SearchOutcomes
    /\ LET extraction == extractContentRequest(step.generator)
       IN  state' = Reduce(state,
                       IF outcome = SEARCH_THROWS THEN ContentErrorUpdate
                       ELSE RecommendationsUpdate(extraction, outcome))
    /\ node' = "END"
    /\ step' = [ step EXCEPT !.outcomes = << outcome >> ]
    /\ UNCHANGED << path, toolRounds >>
    /\ UNCHANGED << cbVars, valVars >>

NextContent ==
    \/ \E output \in ExtractionOutputs : ExtractRequest(output)
    \/ \E outcome \in SearchOutcomes : SearchSettles(outcome)

SpecContent == InitContent /\ [][NextContent]_vars

-----------------------------------------------------------------------------

(* Properties of the circuit breaker                                       *)

ClassifierSettled == emergencyPromise.state = "fulfilled"

ClassifierPositive == ClassifierSettled /\ emergencyPromise.value = TRUE

OrchestratorResolved == orchestratorPromise.state = "fulfilled"

\* the classifier settled strictly before the deadline and before the response
ClassifierFirst ==
    \/ firstResult.source = "emergency"
    \/ /\ ClassifierSettled
       /\ emSettledAt < emergencyTimeoutMs
       /\ orchSettledAt = -1 \/ emSettledAt < orchSettledAt

\* C1: when the classifier settles positive before the deadline and before the
\* response computation, the function has returned exactly EMERGENCY_RESPONSE,
\* at that instant, and no text of the response computation is in the result,
\* also after the response computation has resolved.
C1_PositiveFirstTrips ==
    (ClassifierFirst /\ ClassifierPositive) =>
        /\ cbPc = "returned"
        /\ cbResult = EMERGENCY_RESPONSE
        /\ cbResult.message \notin OrchestratorTexts
        /\ returnedAt = emSettledAt

C1_Witness ==
    /\ firstResult.source = "emergency"
    /\ ClassifierPositive
    /\ OrchestratorResolved
    /\ orchSettledAt > emSettledAt
    /\ cbResult = EMERGENCY_RESPONSE

\* the classifier call failed: the model call threw, its content is not JSON,
\* or the parsed isEmergency is not a boolean
ClassifierFailed(output) ==
    \/ output = THROWN
    \/ /\ output \in ClassifierContents
       /\ \/ JsonParse(output) = SyntaxError
          \/ JsonParse(output).isEmergency \notin { "true", "false" }

\* C2: when the classifier call fails and that failure wins the race, what the
\* function returns is the fixed safety result, never the normal response.
C2_ClassifierFailureFailsClosed ==
    ( /\ firstResult.source = "emergency"
      /\ ClassifierFailed(modelOutput)
      /\ cbPc = "returned" ) => cbResult = EMERGENCY_RESPONSE

\* C3 (as stated): the function does not return a normal response with
\* isEmergency = false when the deadline won the race.
C3_TimeoutNeverSafe ==
    ~ ( /\ cbPc = "returned"
        /\ firstResult.source = "timeout"
        /\ cbResult.isEmergency = FALSE )

\* C3 (amended): when the deadline wins the race, the timeout is not resolved
\* as positive: whatever is returned is a normal response with isEmergency =
\* false and is never the safety result.
C3_TimeoutProceeds ==
    (cbPc = "returned" /\ firstResult.source = "timeout") =>
        /\ cbResult.isEmergency = FALSE
        /\ cbResult # EMERGENCY_RESPONSE

C3_Witness ==
    /\ cbPc = "returned"
    /\ firstResult.source = "timeout"
    /\ ~ClassifierSettled
    /\ cbResult.message \in OrchestratorTexts

\* C5: when the response computation wins the race and the classifier then
\* resolves positive less than 500ms later, the function has returned
\* EMERGENCY_RESPONSE and the response is discarded.
C5_PositiveInGraceTrips ==
    ( /\ firstResult.source = "orchestrator"
      /\ ClassifierPositive
      /\ emSettledAt < orchSettledAt + GRACE_MS ) =>
        /\ cbPc = "returned"
        /\ cbResult = EMERGENCY_RESPONSE
        /\ returnedAt = emSettledAt

C5_Witness ==
    /\ firstResult.source = "orchestrator"
    /\ ClassifierPositive
    /\ emSettledAt > orchSettledAt
    /\ emSettledAt < orchSettledAt + GRACE_MS
    /\ cbResult = EMERGENCY_RESPONSE

\* C6: when the deadline wins the race, the function returns at the instant the
\* response computation resolves, with its text and isEmergency = false,
\* whether or not the classifier has settled, and nothing that happens after
\* the return changes the result.
C6_DeadlineFirstState ==
    (firstResult.source = "timeout" /\ OrchestratorResolved) =>
        /\ cbPc = "returned"
        /\ cbResult = ChatResponse(orchestratorPromise.value, FALSE)
        /\ returnedAt = orchSettledAt

C6_DeadlineFirstStep ==
    (firstResult.source = "timeout" /\ cbPc = "returned") =>
        /\ cbPc' = "returned"
        /\ cbResult' = cbResult

C6_DeadlineFirstProceeds ==
    [](C6_DeadlineFirstState) /\ [][C6_DeadlineFirstStep]_vars

C6_Witness ==
    /\ firstResult.source = "timeout"
    /\ cbPc = "returned"
    /\ ClassifierPositive
    /\ emSettledAt > returnedAt
    /\ cbResult.isEmergency = FALSE

\* C7: when the classifier wins the race with a negative verdict, the function
\* stays suspended on the response computation, deadline or not, and returns
\* exactly the text it resolved with, isEmergency = false, when it resolves.
C7_NegativeFirstAwaits ==
    (firstResult.source = "emergency" /\ ~firstResult.isEmergency) =>
        /\ orchestratorPromise.state = "pending" => cbPc = "case2"
        /\ OrchestratorResolved =>
              /\ cbPc = "returned"
              /\ cbResult = ChatResponse(orchestratorPromise.value, FALSE)
              /\ cbResult.message \in OrchestratorTexts
              /\ returnedAt = orchSettledAt

C7_Witness ==
    /\ firstResult.source = "emergency"
    /\ ~firstResult.isEmergency
    /\ cbPc = "returned"
    /\ deadlineFired
    /\ returnedAt > emergencyTimeoutMs + GRACE_MS

\* C8: when the response computation wins the race at time t and the classifier
\* has not settled by t + 500, the function returns the response's text with
\* isEmergency = false at t + 500 exactly; and no return is later than 500ms
\* after the response computation resolved.
C8_GraceBound ==
    /\ ( /\ firstResult.source = "orchestrator"
         /\ now > orchSettledAt + GRACE_MS ) => cbPc = "returned"
    /\ ( /\ firstResult.source = "orchestrator"
         /\ cbPc = "returned"
         /\ ~ClassifierSettled \/ emSettledAt > orchSettledAt + GRACE_MS ) =>
            /\ cbResult = ChatResponse(firstResult.message, FALSE)
            /\ returnedAt = orchSettledAt + GRACE_MS
    /\ (OrchestratorResolved /\ cbPc = "returned") =>
            returnedAt <= orchSettledAt + GRACE_MS
    /\ (OrchestratorResolved /\ now > orchSettledAt + GRACE_MS) =>
            cbPc = "returned"

C8_Witness ==
    /\ firstResult.source = "orchestrator"
    /\ cbPc = "returned"
    /\ ~ClassifierSettled
    /\ ~deadlineFired
    /\ returnedAt = orchSettledAt + GRACE_MS
    /\ cbResult.message \in OrchestratorTexts

\* C9: when the deadline won the race and the classifier resolved positive
\* afterwards, then once the function has settled and no handler is left
\* pending, the late-detection warning has been raised.
C9_LateDetectionRaised ==
    ( /\ firstResult.source = "timeout"
      /\ ClassifierPositive
      /\ cbPc \in { "returned", "rejected" }
      /\ lateHandler # "attached" ) => lateDetection

-----------------------------------------------------------------------------
(* Properties of the orchestrator node and its routing                     *)

\* the classifier answered with a parseable verdict whose isEmergency is the
\* boolean false
WellFormedNegative(output) ==
    /\ output # THROWN
    /\ RegexMatch(output) # NoMatch
    /\ JsonParse(RegexMatch(output)) # SyntaxError
    /\ JsonParse(RegexMatch(output)).isEmergency = "false"

\* C4: on an Orchestrate pass that ran the inline safety check, the generator
\* was invoked only if the classifier returned a well-formed verdict with
\* isEmergency = false.
C4_NormalFlowOnlyOnWellFormedNegative ==
    ( /\ step.node = "orchestrator"
      /\ step.classifier # "not invoked"
      /\ step.generator # "not invoked" ) => WellFormedNegative(step.classifier)

\* the Orchestrate pass being taken ran the inline check and it was positive
PositiveCheckStep ==
    /\ node = "orchestrator"
    /\ step'.node = "orchestrator"
    /\ path' = Append(path, "orchestrator")
    /\ step'.classifier # "not invoked"
    /\ checkEmergency(step'.classifier).isEmergency

C10_EmergencyStep ==
    PositiveCheckStep =>
        /\ state'.isEmergency = TRUE
        /\ state'.messages = Append(state.messages, AIMessage(EMERGENCY_MESSAGE, << >>))
        /\ state'.responseMessage = EMERGENCY_MESSAGE
        /\ state'.responseMessageType = "emergency"
        /\ state'.responsePayload = CRISIS_RESOURCES
        /\ step'.generator = "not invoked"
        /\ node' = "END"

C10_EmergencyEnds ==
    ( /\ step.node = "orchestrator"
      /\ step.classifier # "not invoked"
      /\ checkEmergency(step.classifier).isEmergency ) =>
        /\ node = "END"
        /\ path[Len(path)] = "orchestrator"
        /\ \A i \in 1..Len(path) : path[i] = "orchestrator"

\* C10: an Orchestrate pass whose inline safety check is positive sets
\* isEmergency, appends exactly the one fixed safety message, sets the
\* response to the emergency type with the crisis-resources payload, does not
\* invoke the generator, and the graph is at END right after it, with neither
\* the tools node nor the follow-up node executed.
C10_PositiveCheckShortCircuits ==
    [][C10_EmergencyStep]_vars /\ [](C10_EmergencyEnds)

C10_Witness ==
    /\ step.node = "orchestrator"
    /\ step.classifier = "Result: {\"isEmergency\": true}"
    /\ step.generator = "not invoked"
    /\ node = "END"
    /\ state.isEmergency
    /\ state.responsePayload = CRISIS_RESOURCES
    /\ Len(state.messages) = 4
    /\ state.contentItems = << Article >>

\* the step being taken is a pass through the orchestrator node
OrchestrateStep ==
    /\ node = "orchestrator"
    /\ step'.node = "orchestrator"
    /\ path' = Append(path, "orchestrator")

\* C11: after any Orchestrate pass that leaves the emergency flag set, the
\* graph is at END, not at the tools node and not at the follow-up node, also
\* when the last message carries tool calls or a non-text payload is in state.
C11_EmergencyFlagRoutesToEnd ==
    [][ (OrchestrateStep /\ state'.isEmergency) => node' = "END" ]_vars

\* the flag is set, the generator's reply carries tool calls, a non-text
\* payload is in state, and the turn has ended
C11_Witness ==
    /\ step.node = "orchestrator"
    /\ state.isEmergency
    /\ Len(LastMessage(state.messages).tool_calls) > 0
    /\ state.responsePayload # NullPayload
    /\ state.responseMessageType # "text"
    /\ node = "END"

\* the response channels of GraphState
ResponseFields == { "responseMessage", "responseMessageType", "responsePayload" }

\* C12: whenever the generator's reply on an Orchestrate pass carries at least
\* one tool call, that reply is appended to messages, the response fields are
\* untouched, and the graph is at the tools node next.
C12_ToolCallsRouteToTools ==
    [][ (OrchestrateStep /\ step'.generator = "tool_calls") =>
            /\ Len(state'.messages) = Len(state.messages) + 1
            /\ SubSeq(state'.messages, 1, Len(state.messages)) = state.messages
            /\ getMessageType(LastMessage(state'.messages)) = "ai"
            /\ Len(LastMessage(state'.messages).tool_calls) > 0
            /\ \A f \in ResponseFields : state'[f] = state[f]
            /\ node' = "tools" ]_vars

\* the pass being taken got a direct answer from the generator
DirectAnswerStep == OrchestrateStep /\ step'.generator = "text"

\* tools ran this turn and left a payload: the last history message is a tool
\* result and responsePayload is set
ToolResultsInState(s) ==
    /\ getMessageType(LastMessage(s.messages)) = "tool"
    /\ s.responsePayload # NullPayload

\* the text of the answer the pass appended
AnswerText(s) ==
    LET content == LastMessage(s.messages).content
    IN  IF content = ContentBlocks THEN Stringify(content) ELSE content

\* C13: a direct answer on a pass whose last history message is a tool result,
\* with responsePayload set, leaves responseMessageType and responsePayload at
\* their prior values, changes only responseMessage (to the generator's text)
\* besides appending the answer, and the graph is next at the follow-up node
\* if the payload's type is non-text, otherwise at END.
C13_CommentaryKeepsPayload ==
    [][ (DirectAnswerStep /\ ToolResultsInState(state)) =>
            /\ state'.responseMessageType = state.responseMessageType
            /\ state'.responsePayload = state.responsePayload
            /\ state'.responseMessage = AnswerText(state')
            /\ state'.messages = Append(state.messages, LastMessage(state'.messages))
            /\ \A channel \in DOMAIN state \ { "messages", "responseMessage" } :
                   state'[channel] = state[channel]
            /\ node' = IF state.responseMessageType # "text" THEN "followup" ELSE "END"
      ]_vars

C13_Witness ==
    /\ step.node = "orchestrator"
    /\ step.generator = "text"
    /\ path = << "orchestrator", "tools", "orchestrator" >>
    /\ getMessageType(state.messages[Len(state.messages) - 1]) = "tool"
    /\ state.responseMessageType = "expert_profiles"
    /\ state.responsePayload.experts = << Expert >>
    /\ state.responseMessage = "That sounds difficult. What has been weighing on you?"
    /\ node = "followup"

\* C14: a direct answer on a pass whose last history message is not a tool
\* result, or with no responsePayload set, sets responseMessage to the answer,
\* responseMessageType to text and responsePayload to null, whatever payload
\* was in state, and the graph is at END right after the pass; when the pass
\* is the first of the turn, it is the only step of the turn.
C14_DirectAnswerEndsTurn ==
    [][ (DirectAnswerStep /\ ~ToolResultsInState(state)) =>
            /\ state'.responseMessage = AnswerText(state')
            /\ state'.responseMessageType = "text"
            /\ state'.responsePayload = NullPayload
            /\ node' = "END"
            /\ path = << >> => path' = << "orchestrator" >>
      ]_vars

\* a structured payload left by the previous turn is overwritten and the turn
\* ends after the single pass
C14_Witness ==
    /\ step.node = "orchestrator"
    /\ step.generator = "text"
    /\ path = << "orchestrator" >>
    /\ state.contentItems = << Article >>
    /\ state.responseMessageType = "text"
    /\ state.responsePayload = NullPayload
    /\ state.responseMessage = "That sounds difficult. What has been weighing on you?"
    /\ node = "END"

-----------------------------------------------------------------------------
(* Properties of the tools node                                            *)

\* the tool messages at the end of messages: what the last batch appended
ToolBatchResults(s) ==
    LET others == { i \in DOMAIN s.messages : getMessageType(s.messages[i]) # "tool" }
        start == IF others = { } THEN 0
                 ELSE CHOOSE i \in others : \A j \in others : j <= i
    IN  SubSeq(s.messages, start + 1, Len(s.messages))

\* the positions of the batch whose tool output is a ToolResult that passes
\* structural and payload validation
SuccessfulResults(results) ==
    { i \in DOMAIN results : parseToolResult(results[i].content) # NullResult }

\* C15: after ExecuteTools ran a batch in which at least one call returned a
\* valid ToolResult, the response fields and the type-specific projection in
\* state are those of the last valid result in request order, whatever the
\* calls after it produced.
C15_LastSuccessfulResultWins ==
    step.node = "tools" =>
        LET results == ToolBatchResults(state)
            ok == SuccessfulResults(results)
        IN  ok # { } =>
                LET last == CHOOSE i \in ok : \A j \in ok : j <= i
                    updates == extractStateUpdates(parseToolResult(results[last].content))
                IN  \A channel \in DOMAIN updates : state[channel] = updates[channel]

\* the step being taken is a run of the tools node
ExecuteToolsStep ==
    /\ node = "tools"
    /\ step'.node = "tools"
    /\ path' = Append(path, "tools")

\* C16: when the tool output that ExecuteTools parses (that of the last call)
\* fails JSON parsing, structural validation or payload validation, the step
\* only appends the tool messages of the batch: every other channel, the
\* response fields and the result caches included, keeps its value, and the
\* graph is at the orchestrator node next.
C16_InvalidResultLeavesState ==
    [][ ( /\ ExecuteToolsStep
          /\ parseToolResult(LastMessage(state'.messages).content) = NullResult ) =>
            /\ \A channel \in DOMAIN state \ { "messages" } :
                   state'[channel] = state[channel]
            /\ state'.messages = state.messages \o ToolBatchResults(state')
            /\ Len(ToolBatchResults(state')) = Len(PendingToolCalls(state))
            /\ node' = "orchestrator"
      ]_vars

\* a search result with an item that lacks a required field was parsed while
\* the state held the payload of the previous turn
C16_Witness ==
    /\ step.node = "tools"
    /\ LastMessage(state.messages).content = CONTENT_BAD_ITEM
    /\ state.responseMessageType = "content_recommendations"
    /\ state.responsePayload = [ items |-> << Article >>, topic |-> "stress", totalCount |-> 1 ]
    /\ state.contentItems = << Article >>
    /\ node = "orchestrator"

\* the (responseMessageType, responsePayload) pair of s validates against the
\* schema registered for the type
ValidResponsePair(s) ==
    /\ s.responseMessageType \in MessageTypes
    /\ PayloadSchemas(s.responseMessageType, s.responsePayload)

\* C17: in every state of the main graph the (responseMessageType,
\* responsePayload) pair validates against the schema registered for the
\* type: null for text, the crisis-resources payload for emergency, and for a
\* tool type a payload that conforms to the schema of that type.
C17_PayloadAlwaysValid ==
    /\ ValidResponsePair(state)
    /\ state.responseMessageType = "text" => state.responsePayload = NullPayload
    /\ state.responseMessageType = "emergency" => state.responsePayload = CRISIS_RESOURCES

\* a booking result was merged by the tools node and kept by the pass after it
C17_Witness ==
    /\ path = << "orchestrator", "tools", "orchestrator" >>
    /\ state.responseMessageType = "session_booked"
    /\ state.responsePayload.session = BookedSession
    /\ state.selectedSlotId = "slot_0_9"
    /\ node = "followup"

\* the messages the step being taken appended
Appended == SubSeq(state'.messages, Len(state.messages) + 1, Len(state'.messages))

\* C18: for every batch [c1..cn] on the last AI message, ExecuteTools appends
\* exactly n tool messages, the i-th carrying tool_call_id = ci.id, whatever
\* the handlers' running times and whichever of them fail.
C18_ResultsInRequestOrder ==
    [][ ExecuteToolsStep =>
            LET calls == PendingToolCalls(state)
            IN  /\ state'.messages = state.messages \o Appended
                /\ Len(Appended) = Len(calls)
                /\ \A i \in 1..Len(calls) :
                       /\ getMessageType(Appended[i]) = "tool"
                       /\ Appended[i].tool_call_id = calls[i].id
      ]_vars

\* the second handler ran shorter than the first, which failed
C18_Witness ==
    /\ step.node = "tools"
    /\ step.durations = << 2, 1 >>
    /\ step.outcomes[1] = TOOL_THROWS
    /\ step.outcomes[2] = AVAILABILITY
    /\ ToolBatchResults(state)[1].tool_call_id = "call_1"
    /\ ToolBatchResults(state)[2].tool_call_id = "call_2"
    /\ ToolBatchResults(state)[2].content = AVAILABILITY

\* C19: a tool call whose name is not registered yields the tool message
\* "Tool <name> not found" tagged with the call's id, no handler is invoked
\* for it, the step completes and the graph is at the orchestrator node next.
C19_UnknownToolNotFound ==
    [][ ExecuteToolsStep =>
            LET calls == PendingToolCalls(state)
            IN  \A i \in 1..Len(calls) :
                    calls[i].name \notin ToolNames =>
                        /\ Len(Appended) >= i
                        /\ getMessageType(Appended[i]) = "tool"
                        /\ Appended[i].tool_call_id = calls[i].id
                        /\ calls[i].name = "fetch_x" =>
                               Appended[i].content = "Tool fetch_x not found"
                        /\ step'.tools[i] = "not invoked"
                        /\ node' = "orchestrator"
      ]_vars

\* the batch was the single call of an unregistered tool
C19_Witness ==
    /\ step.node = "tools"
    /\ step.tools = << "not invoked" >>
    /\ LastMessage(state.messages) = ToolMessage("call_1", "Tool fetch_x not found")
    /\ state.messages[Len(state.messages) - 1].tool_calls = << ToolCall("call_1", "fetch_x") >>
    /\ node = "orchestrator"

\* C20: when a handler throws, its call gets an error tool message tagged
\* with its id, every later call of the batch is still handled (its message
\* carries what its own handler produced), and the step completes with the
\* graph at the orchestrator node.
C20_HandlerThrowIsContained ==
    [][ ExecuteToolsStep =>
            LET calls == PendingToolCalls(state)
                outcomes == step'.outcomes
            IN  \A i \in 1..Len(calls) :
                    (calls[i].name \in ToolNames /\ outcomes[i] = TOOL_THROWS) =>
                        /\ Len(Appended) = Len(calls)
                        /\ Appended[i] =
                               ToolMessage(calls[i].id,
                                   "Error executing tool: Error: search service unavailable")
                        /\ \A j \in (i + 1)..Len(calls) :
                               /\ Appended[j].tool_call_id = calls[j].id
                               /\ (calls[j].name \in ToolNames /\ outcomes[j] # TOOL_THROWS) =>
                                      Appended[j].content = outcomes[j]
                        /\ node' = "orchestrator"
      ]_vars

\* the first handler threw and the second call still returned its result
C20_Witness ==
    /\ step.node = "tools"
    /\ step.outcomes = << TOOL_THROWS, EXPERTS_FOUND >>
    /\ ToolBatchResults(state)[1].content = ErrorContent
    /\ ToolBatchResults(state)[2] = ToolMessage("call_2", EXPERTS_FOUND)
    /\ state.experts = << Expert >>
    /\ node = "orchestrator"

\* C21: every run of the tools node leaves a tool message last in messages,
\* so routeAfterTools returns 'orchestrator' and the graph is at the
\* orchestrator node next, never at END.
C21_ToolsAlwaysReturnToOrchestrator ==
    [][ ExecuteToolsStep =>
            /\ getMessageType(LastMessage(state'.messages)) = "tool"
            /\ node' = "orchestrator" ]_vars

\* a batch in which no call succeeded: an unregistered name and a handler
\* that threw
C21_Witness ==
    /\ step.node = "tools"
    /\ step.outcomes = << "not invoked", TOOL_THROWS >>
    /\ ToolBatchResults(state)[1].content = "Tool fetch_x not found"
    /\ getMessageType(LastMessage(state.messages)) = "tool"
    /\ node = "orchestrator"

-----------------------------------------------------------------------------
(* Properties of failure handling in the main graph                        *)

\* C22: when the generator call fails on an Orchestrate pass, first pass or
\* re-entry after tools, the step appends no message, sets responseMessage to
\* the generic fallback text, responseMessageType to text and responsePayload
\* to null, records the error, changes nothing else, and the graph is at END.
C22_GeneratorFailureFallsBack ==
    [][ (OrchestrateStep /\ step'.generator = "throw") =>
            /\ state'.messages = state.messages
            /\ state'.responseMessage =
                   "I'm here to support your wellbeing. What's on your mind?"
            /\ state'.responseMessageType = "text"
            /\ state'.responsePayload = NullPayload
            /\ state'.error \in { "Azure OpenAI request failed", "Unknown error" }
            /\ \A channel \in DOMAIN state \ (ResponseFields \cup { "error" }) :
                   state'[channel] = state[channel]
            /\ node' = "END"
      ]_vars

\* the generator failed on the re-entry after a tool result had been merged
C22_Witness ==
    /\ step.node = "orchestrator"
    /\ step.generator = "throw"
    /\ path = << "orchestrator", "tools", "orchestrator" >>
    /\ getMessageType(LastMessage(state.messages)) = "tool"
    /\ state.experts = << Expert >>
    /\ state.responseMessageType = "text"
    /\ state.responsePayload = NullPayload
    /\ state.error = "Azure OpenAI request failed"
    /\ node = "END"

\* the step being taken is a run of the follow-up node
FollowupStep ==
    /\ node = "followup"
    /\ step'.node = "followup"
    /\ path' = Append(path, "followup")

\* C23: when follow-up generation fails, the step sets followupQuestion to
\* null and changes no other channel (messages and the response fields keep
\* their values), and the graph is at END.
C23_FollowupFailureClearsQuestion ==
    [][ (FollowupStep /\ step'.followup = "throw") =>
            /\ state'.followupQuestion = NullStr
            /\ \A channel \in DOMAIN state \ { "followupQuestion" } :
                   state'[channel] = state[channel]
            /\ node' = "END"
      ]_vars

\* the question of the previous turn was in state when the generation failed
C23_Witness ==
    /\ step.node = "followup"
    /\ step.followup = "throw"
    /\ state.messages[1] = HumanMessage("show me articles about stress")
    /\ state.followupQuestion = NullStr
    /\ state.responseMessageType = "content_recommendations"
    /\ state.responsePayload # NullPayload
    /\ node = "END"

-----------------------------------------------------------------------------
(* Properties of the circuit breaker: failures and abandoned branches      *)

\* C24: withEmergencyCircuitBreaker never rejects; in particular a rejection
\* of orchestratorFn, before or after the classifier settled, does not make
\* the function reject.
C24_BreakerNeverRejects == cbPc # "rejected"

-----------------------------------------------------------------------------
(* Properties of the deployment graph                                      *)

\* the classifier call threw or its output is not parseable JSON
ClassifierUnusable(output) ==
    \/ output = THROWN
    \/ output \in ClassifierContents /\ JsonParse(output) = SyntaxError

\* C25: in the deployment graph a failure of the safety classifier in
\* emergency_check (the call throws or the output is not parseable JSON) is
\* treated as positive: the graph is at emergency_response next and the
\* orchestrator node is never run in that turn.
C25_DeploymentFailsClosed ==
    ( step.node = "emergency_check" /\ ClassifierUnusable(step.classifier) ) =>
        node = "emergency_response"

-----------------------------------------------------------------------------
(* Properties of the state reducers of the main graph                      *)

\* the channels an update of each node can name
OrchestratorChannels == { "messages", "isEmergency", "error" } \cup ResponseFields

ToolsChannels ==
    { "messages", "isEmergency", "experts", "timeSlots", "contentItems",
      "contentTopic", "selectedExpertId", "selectedSlotId" } \cup ResponseFields

FollowupChannels == { "followupQuestion" }

StepChannels ==
    CASE node = "orchestrator" -> OrchestratorChannels
      [] node = "tools"        -> ToolsChannels
      [] node = "followup"     -> FollowupChannels
      [] OTHER                 -> { }

\* C27: after any step of the main graph the previous message sequence is an
\* unchanged prefix of the new one; every channel the step's update does not
\* name keeps its value; a channel other than messages that the update names
\* holds exactly the update's value afterwards (replaced, not merged).
C27_MessagesAppendOnly ==
    [][ /\ Len(state'.messages) >= Len(state.messages)
        /\ SubSeq(state'.messages, 1, Len(state.messages)) = state.messages
        /\ \A channel \in DOMAIN state \ StepChannels : state'[channel] = state[channel]
        /\ ( /\ ExecuteToolsStep
             /\ parseToolResult(LastMessage(state'.messages).content) # NullResult ) =>
               LET updates ==
                       extractStateUpdates(parseToolResult(LastMessage(state'.messages).content))
               IN  \A channel \in DOMAIN updates : state'[channel] = updates[channel]
      ]_vars

\* a search result replaced the items cached by the previous turn, and the
\* three messages of the history are still there under the new ones
C27_Witness ==
    /\ step.node = "tools"
    /\ Len(state.messages) = 5
    /\ state.messages[1] = HumanMessage("show me articles about stress")
    /\ state.messages[3] = HumanMessage("thanks, that is all")
    /\ LastMessage(state.messages).content = CONTENT_FOUND
    /\ state.contentItems = << Article, Video >>
    /\ state.followupQuestion = "Would you like me to find more resources?"

-----------------------------------------------------------------------------
(* Properties of payload validation                                        *)

\* the fields the schema of each message type requires at the top level
RequiredFields(messageType) ==
    CASE messageType = "emergency"               -> { "severity", "resources" }
      [] messageType = "expert_profiles"         -> { "experts" }
      [] messageType = "expert_availability"     -> { "expert", "slots", "timezone" }
      [] messageType = "session_booked"          -> { "session", "confirmationMessage" }
      [] messageType = "content_recommendations" -> { "items", "topic" }
      [] OTHER                                   -> { }

\* the fields each entity schema requires
ExpertRequired == { "id", "name", "title", "specializations", "languages" }

ContentItemRequired == { "id", "title", "type", "topic", "url", "language" }

\* the payload lacks a required field of the schema of messageType, at the
\* top level or in an expert or content item it lists
LacksRequiredField(messageType, payload) ==
    \/ RequiredFields(messageType) \ DOMAIN payload # { }
    \/ /\ messageType = "expert_profiles"
       /\ "experts" \in DOMAIN payload
       /\ \E i \in DOMAIN payload.experts : ExpertRequired \ DOMAIN payload.experts[i] # { }
    \/ /\ messageType = "content_recommendations"
       /\ "items" \in DOMAIN payload
       /\ \E i \in DOMAIN payload.items : ContentItemRequired \ DOMAIN payload.items[i] # { }

C29_RegistryTotal ==
    /\ PayloadSchemaKeys = MessageType
    /\ MessageTypes = MessageType
    /\ \A i \in DOMAIN vVerdicts : ~vVerdicts[i].thrown

\* the schema of the emergency type was looked up and accepted the crisis
\* resources
C29_Witness ==
    /\ vInput = [ messageType |-> "emergency", payload |-> CRISIS_RESOURCES ]
    /\ Len(vVerdicts) > 0
    /\ vVerdicts[1] = [ success |-> TRUE, thrown |-> FALSE ]

-----------------------------------------------------------------------------
(* Termination of a turn of the main graph                                 *)

\* the pairs of nodes that can run one after the other
GraphEdges ==
    { << "orchestrator", "tools" >>, << "tools", "orchestrator" >>,
      << "orchestrator", "followup" >> }

\* the last Orchestrate pass appended no tool-calling message: it returned a
\* direct answer, the generator failed, or the emergency path was taken
PassWithoutToolCalls ==
    /\ step.node = "orchestrator"
    /\ step.generator \in { "text", "throw", "not invoked" }

C30_Shape ==
    /\ \A i \in 1..(Len(path) - 1) : << path[i], path[i + 1] >> \in GraphEdges
    /\ Cardinality({ i \in DOMAIN path : path[i] = "followup" }) <= 1
    /\ PassWithoutToolCalls => node \in { "END", "followup" }
    /\ step.node = "followup" => node = "END"

\* C30: the only cycle of the main graph is orchestrator -> tools ->
\* orchestrator, the follow-up node runs at most once and END is never left,
\* and, every collaborator call settling, a turn reaches END once an
\* Orchestrate pass ends without appending a tool-calling message, at most
\* one step (the follow-up node) later.
C30_TurnTerminates ==
    /\ [](C30_Shape)
    /\ [][node # "END"]_vars
    /\ (PassWithoutToolCalls ~> node = "END")

\* a turn that went round the cycle once, then through the follow-up node,
\* and is over
C30_Witness ==
    /\ path = << "orchestrator", "tools", "orchestrator", "followup" >>
    /\ node = "END"
    /\ state.followupQuestion = "Would you like me to find more resources?"
    /\ state.responseMessageType = "expert_availability"

-----------------------------------------------------------------------------
(* The emergency flag within a turn of the main graph                      *)

\* C31: no step of the main graph takes the emergency flag from true to
\* false, and an Orchestrate pass made while the flag is set leads to END.
C31_EmergencyFlagMonotone ==
    [][ state.isEmergency =>
          /\ state'.isEmergency
          /\ step'.node = "orchestrator" => node' = "END" ]_vars

\* the flag came in with the initial state, the classifier found nothing on
\* the new message, the generator answered directly, and the flag is still set
C31_Witness ==
    /\ path = << "orchestrator" >>
    /\ step.classifier = "{\"isEmergency\": false}"
    /\ step.generator = "text"
    /\ state.isEmergency
    /\ node = "END"

-----------------------------------------------------------------------------
(* When the inline safety classifier is invoked                            *)

\* the last message is a human message whose content is a non-empty string
NewUserText(s) ==
    /\ Len(s.messages) > 0
    /\ s.messages[Len(s.messages)].type = "human"
    /\ s.messages[Len(s.messages)].content \notin { "", ContentBlocks }

\* the pass being taken invokes the inline classifier
ClassifierInvoked == step'.classifier # "not invoked"

\* C32: an Orchestrate pass invokes the inline classifier exactly when the
\* last message is a human message with non-empty string content; only the
\* first pass of a turn does, so it is invoked at most once per turn and
\* before any tool is dispatched; and when the tools node hands back to the
\* orchestrator the last message is a tool message.
C32_ClassifierOnceBeforeTools ==
    /\ [][ OrchestrateStep =>
             /\ ClassifierInvoked <=> NewUserText(state)
             /\ ClassifierInvoked => path = << >> ]_vars
    /\ []( (step.node = "tools" /\ node = "orchestrator") =>
             getMessageType(LastMessage(state.messages)) = "tool" )

\* the classifier ran on the user's message, a tool was dispatched, and the
\* pass after the tools node skipped the classifier
C32_Witness ==
    /\ path = << "orchestrator", "tools", "orchestrator" >>
    /\ state.messages[1] = HumanMessage("I have been feeling very stressed lately")
    /\ getMessageType(state.messages[3]) = "tool"
    /\ step.node = "orchestrator"
    /\ step.classifier = "not invoked"

-----------------------------------------------------------------------------
(* When the follow-up node is entered                                      *)

\* C33: whenever the follow-up node is about to run, the step before it was
\* an Orchestrate pass, the emergency flag is not set, the last message
\* carries no tool calls, and the response in state has a payload and a
\* messageType other than 'text'.
C33_FollowupOnlyAfterStructuredAnswer ==
    node = "followup" =>
        /\ step.node = "orchestrator"
        /\ ~state.isEmergency
        /\ LastMessage(state.messages).tool_calls = << >>
        /\ state.responsePayload # NullPayload
        /\ state.responseMessageType # "text"

\* the generator commented on the articles a tool found and the follow-up
\* node is next
C33_Witness ==
    /\ node = "followup"
    /\ path = << "orchestrator", "tools", "orchestrator" >>
    /\ step.generator = "text"
    /\ state.responseMessageType = "content_recommendations"
    /\ state.responsePayload.totalCount = 2

-----------------------------------------------------------------------------
(* Properties of the circuit breaker: the branching decision               *)

\* the four cases of lines 74-119
RaceCases == { "CASE 1", "CASE 2", "CASE 3", "CASE 4" }

\* the condition under which a case takes the outcome r of the race
CaseHandles(c, r) ==
    CASE c = "CASE 1" -> r.source = "emergency" /\ r.isEmergency
      [] c = "CASE 2" -> r.source = "emergency" /\ ~r.isEmergency
      [] c = "CASE 3" -> r.source = "orchestrator"
      [] c = "CASE 4" -> r.source = "timeout"

\* C34: once the three-way race is over, its outcome has been taken by
\* exactly one of the four cases: no outcome falls through to the final
\* throw, and none is taken by two cases.
C34_RaceHandledByOneCase ==
    cbPc # "race" =>
        Cardinality({ c \in RaceCases : CaseHandles(c, firstResult) }) = 1

\* the response computation won the race and the classifier resolved
\* positive after the grace window of CASE 3 had expired
PositiveAfterGrace ==
    /\ firstResult.source = "orchestrator"
    /\ ClassifierPositive
    /\ emSettledAt > orchSettledAt + GRACE_MS

\* C35: when the response computation settles first and the classifier
\* resolves positive only after the grace window has expired, the function
\* has returned the text of the response computation with isEmergency false,
\* no late-detection handler is attached and no warning is raised; a handler
\* is attached only when the deadline won the race.
C35_NoLateDetectionAfterGrace ==
    /\ PositiveAfterGrace =>
          /\ cbPc = "returned"
          /\ cbResult = ChatResponse(firstResult.message, FALSE)
          /\ lateHandler = "none"
          /\ ~lateDetection
    /\ lateHandler # "none" => firstResult.source = "timeout"

\* the response came first, the grace window ran out, the normal response
\* was returned, and the classifier then resolved positive
C35_Witness ==
    /\ PositiveAfterGrace
    /\ cbPc = "returned"
    /\ ~cbResult.isEmergency
    /\ returnedAt = orchSettledAt + GRACE_MS
    /\ now > emSettledAt

-----------------------------------------------------------------------------
(* What a validated tool result changes in state                           *)

\* the channels a result of the given messageType projects its payload to
ProjectionOf(messageType) ==
    CASE messageType = "expert_profiles"         -> { "experts" }
      [] messageType = "expert_availability"     -> { "timeSlots" }
      [] messageType = "content_recommendations" -> { "contentItems", "contentTopic" }
      [] messageType = "session_booked"          -> { "selectedExpertId", "selectedSlotId" }
      [] messageType = "emergency"               -> { "isEmergency" }
      [] OTHER                                   -> { }

\* the value the projection of a result gives to one of its channels
ProjectedValue(result, channel) ==
    CASE channel = "experts"          -> result.payload.experts
      [] channel = "timeSlots"        -> result.payload.slots
      [] channel = "contentItems"     -> result.payload.items
      [] channel = "contentTopic"     -> result.payload.topic
      [] channel = "selectedExpertId" -> result.payload.session.expert.id
      [] channel = "selectedSlotId"   -> result.payload.session.slot.id
      [] channel = "isEmergency"      -> TRUE

\* one result of each messageType that passes structural and payload validation
ValidatedResults ==
    { [ messageType |-> "text", payload |-> NullPayload, textContent |-> "Noted." ],
      [ messageType |-> "emergency", payload |-> CRISIS_RESOURCES,
        textContent |-> EMERGENCY_MESSAGE ] }
      \cup { JsonParseToolContent(c) :
               c \in { CONTENT_FOUND, CONTENT_NONE, EXPERTS_FOUND, AVAILABILITY, SESSION_BOOKED } }

\* the update extractStateUpdates returns names exactly the response fields
\* and the projection of the result's own messageType
ExactUpdate(result) ==
    LET updates == extractStateUpdates(result)
    IN  /\ PayloadSchemas(result.messageType, result.payload)
        /\ DOMAIN updates = ResponseFields \cup ProjectionOf(result.messageType)
        /\ updates.responseMessageType = result.messageType
        /\ updates.responsePayload = result.payload
        /\ updates.responseMessage = result.textContent
        /\ \A channel \in ProjectionOf(result.messageType) :
               updates[channel] = ProjectedValue(result, channel)

\* C36: the update made from a validated ToolResult names the three response
\* fields and the projection of its own messageType, nothing else; and after
\* an ExecuteTools step that merged one, those channels hold the result's
\* values while every other channel except the appended messages, the caches
\* of the other message types included, keeps the value it had.
C36_ToolResultFrame ==
    /\ [](\A result \in ValidatedResults : ExactUpdate(result))
    /\ [][ ( /\ ExecuteToolsStep
             /\ parseToolResult(LastMessage(state'.messages).content) # NullResult ) =>
               LET result == parseToolResult(LastMessage(state'.messages).content)
                   touched == ResponseFields \cup ProjectionOf(result.messageType)
               IN  /\ \A channel \in DOMAIN state \ (touched \cup { "messages" }) :
                          state'[channel] = state[channel]
                   /\ state'.responseMessageType = result.messageType
                   /\ state'.responsePayload = result.payload
                   /\ state'.responseMessage = result.textContent
                   /\ \A channel \in ProjectionOf(result.messageType) :
                          state'[channel] = ProjectedValue(result, channel)
         ]_vars

\* a list of experts was merged into a state that held the articles of the
\* previous turn: the experts are cached, the articles are still there
C36_Witness ==
    /\ step.node = "tools"
    /\ state.responseMessageType = "expert_profiles"
    /\ state.experts = << Expert >>
    /\ state.contentItems = << Article >>
    /\ state.contentTopic = "stress"
    /\ state.timeSlots = << >>

-----------------------------------------------------------------------------
(* Properties of the circuit breaker: the returned result                  *)

\* C37: a result the circuit breaker returned has isEmergency true exactly
\* when it is EMERGENCY_RESPONSE, and when isEmergency is false its message
\* is the value the response computation resolved with.
C37_ResultConsistent ==
    cbPc = "returned" =>
        /\ cbResult.isEmergency <=> cbResult = EMERGENCY_RESPONSE
        /\ ~cbResult.isEmergency =>
              /\ OrchestratorResolved
              /\ cbResult.message = orchestratorPromise.value

\* the deadline won, the response text was returned unflagged, and the
\* classifier has meanwhile resolved positive
C37_Witness ==
    /\ cbPc = "returned"
    /\ firstResult.source = "timeout"
    /\ cbResult = ChatResponse("Here are some articles on stress", FALSE)
    /\ orchestratorPromise.value = "Here are some articles on stress"
    /\ ClassifierPositive
    /\ lateHandler = "ran"

-----------------------------------------------------------------------------
(* The shape of a turn of the deployment graph                             *)

\* the safety check of this turn has run
DeploymentChecked == Len(path) >= 1

\* C38: in the deployment graph the safety check is the first node of a turn
\* and runs nowhere else; after a positive check only emergency_response
\* runs, and the turn ends with the fixed safety text in responseMessage;
\* after a negative check orchestrator and tools alternate, starting with
\* the orchestrator, and the turn is over exactly when an orchestrator pass
\* leaves no tool calls on the last message.
C38_DeploymentTurnShape ==
    /\ node = "emergency_check" <=> path = << >>
    /\ \A i \in DOMAIN path : path[i] = "emergency_check" <=> i = 1
    /\ (DeploymentChecked /\ state.isEmergency) =>
          /\ \A i \in DOMAIN path : path[i] \notin { "orchestrator", "tools" }
          /\ Len(path) = 1 => node = "emergency_response"
          /\ Len(path) = 2 =>
                /\ path[2] = "emergency_response"
                /\ node = "END"
                /\ state.responseMessage = SAFETY_TEXT
          /\ Len(path) <= 2
    /\ (DeploymentChecked /\ ~state.isEmergency) =>
          /\ \A i \in 2..Len(path) :
                path[i] = IF i % 2 = 0 THEN "orchestrator" ELSE "tools"
          /\ node = IF Len(path) % 2 = 1 THEN "orchestrator"
                    ELSE IF Len(PendingToolCalls(state)) > 0 THEN "tools"
                    ELSE "END"

\* the check on the user's first message was positive, only the safety node
\* ran after it and the turn is over
C38_Witness ==
    /\ path = << "emergency_check", "emergency_response" >>
    /\ node = "END"
    /\ state.isEmergency
    /\ state.responseMessage = SAFETY_TEXT
    /\ Len(state.messages) = 1

-----------------------------------------------------------------------------
(* Properties of the content agent node                                    *)

\* what the node extracted from the reply of the extraction model
Extracted == extractContentRequest(step.generator)

\* C39: when the contentTopic the node extracted is null, the node has
\* returned a text response (responseMessageType 'text', responsePayload
\* null) carrying the clarifying question and has issued no search; every
\* search it issues has a non-null topic as its search text.
C39_NullTopicAsksAndNeverSearches ==
    step.node = "content_agent" =>
        /\ Extracted.contentTopic = NullStr =>
              /\ node = "END"
              /\ step.tools = << >>
              /\ state.responseMessageType = "text"
              /\ state.responsePayload = NullPayload
              /\ state.responseMessage = Extracted.question
        /\ \A i \in DOMAIN step.tools : step.tools[i].searchText # NullStr

====
